---- MODULE Spec2Model ----
(***************************************************************************)
(* Model of the credential onboarding and session orchestration hook       *)
(* useWalletDashboard (src/unnamed/part_000) together with the sign-client *)
(* cache of lib/qubicWallet (src/unnamed/part_004).                        *)
(*                                                                         *)
(* Every asynchronous handler is split at its await points: one action per *)
(* continuation.  React state written by a continuation is committed with  *)
(* it; the effect that copies qubicSession into qubicSessionRef            *)
(* (part_000:504-506) runs on that commit, so the ref is read through the  *)
(* definition qubicSessionRef.                                             *)
(***************************************************************************)
EXTENDS Integers, Sequences, FiniteSets, TLC

(***************************************************************************)
(* Bounds                                                                  *)
(***************************************************************************)
MaxConnectCalls == 1
MaxDisconnectCalls == 1
MaxVaultCalls == 1
MaxEntries == 3
MaxTopics == 2
MaxPreexisting == 1
MaxCancelCalls == 1
MaxMetaCalls == 1
MaxSeedCalls == 1
MaxFetchCalls == 2
FingerprintHexLen == 1

ConnIds == 1..MaxConnectCalls
DiscIds == 1..MaxDisconnectCalls

(***************************************************************************)
(* Values                                                                  *)
(***************************************************************************)
NULL == [null |-> TRUE]

NATIVE_TOPIC == "qubic-native-wallet"

\* Topics the pairing protocol hands out, in creation order.
TopicOrder == [i \in 1..MaxTopics |-> "t" \o ToString(i)]
Topics == {TopicOrder[i] : i \in 1..MaxTopics}
TopicIndex(t) == CHOOSE i \in 1..MaxTopics : TopicOrder[i] = t

\* The protocol session (SessionTypes.Struct) a wallet approves for a topic:
\* ns = the qubic namespace is present, accounts = namespaces.qubic.accounts
\* with each accounts string as value.split(":") sees it, expiry in seconds
\* (0 = not a number).
Struct(t, ns, accts, exp) ==
  [topic |-> t, ns |-> ns, accounts |-> accts, expiry |-> exp]

StructChoices(t) ==
  { Struct(t, TRUE, <<<<"qubic", "mainnet", "ADDR_" \o t>>>>, 1700),
    Struct(t, TRUE, <<<<"qubic", "mainnet">>>>, 0),
    Struct(t, FALSE, <<>>, 1700) }

\* The accounts a wallet reports for a topic (qubic_requestAccounts,
\* accountsChanged): lists of addresses owned by that topic's wallet.
WalletAddress(t) == "ACC_" \o t
AccountLists(t) == { <<>>, <<WalletAddress(t)>> }

VARIABLES
  qubicStatus,        \* useState<ConnectionState>
  qubicMessage,       \* useState<string>, abstracted to the message kind
  qubicSession,       \* useState<QubicSession | null>
  walletConnectUri,   \* useState<string | null>; "" models null
  signClientRef,      \* useRef<SignClient | null>: TRUE when set
  qubicReady,         \* useState(false)
  clientCache,        \* clientCache entry of the project id
  wcSessions,         \* client.session store: topic -> Struct or NULL
  wcListeners,        \* events with a handler registered by client.on
  wcDisconnectCalls,  \* topics client.disconnect was invoked for
  wcIssued,           \* number of topics the protocol has handed out
  isMounted,          \* let isMounted of the client init effect
  detach,             \* let detach of the client init effect is defined
  effectPc,           \* position of the effect's async function
  effectTopic,        \* topic of the effect's const activeQubicSession
  connectCalls,       \* the running connectQubic invocations
  disconnectCalls,    \* the running disconnectQubic invocations
  cancelCalls,        \* number of cancelPairing calls made so far
  vaultState,         \* useState<VaultState>
  vaultUpload,        \* useState<VaultUpload | null>
  vaultPassword,      \* useState("")
  fileCalls,          \* the running handleFileSelection invocations
  unlockCalls,        \* the running handleVaultUnlock invocations
  metaStatus,         \* useState<ConnectionState>
  metaMessage,        \* useState<string>, abstracted to the message kind
  snapAccounts,       \* useState<QubicAccount[]>
  metaCalls,          \* the running connectMetaMask invocations
  seedState,          \* useState<SeedState>
  seedCalls,          \* the running handleSeedSubmit invocations
  identitySnapshotCache, \* Map<string, IdentitySnapshot> of lib/qubicIdentity
  fetchCalls,         \* fetchIdentitySnapshot invocations of other callers
  WALLETCONNECT_PROJECT_ID, \* process.env.NEXT_PUBLIC_WALLETCONNECT_PROJECT_ID
  QUBIC_SNAP_ID       \* const QUBIC_SNAP_ID (part_000:48-49)

sessionVars ==
  << qubicStatus, qubicMessage, qubicSession, walletConnectUri, signClientRef,
     qubicReady, clientCache, wcSessions, wcListeners,
     wcDisconnectCalls, wcIssued, isMounted, detach,
     effectPc, effectTopic, connectCalls, disconnectCalls, cancelCalls >>

vaultVars ==
  << vaultState, vaultUpload, vaultPassword, fileCalls, unlockCalls >>

metaVars == << metaStatus, metaMessage, snapAccounts, metaCalls >>

seedVars == << seedState, seedCalls >>

identityVars == << identitySnapshotCache, fetchCalls >>

envVars == << WALLETCONNECT_PROJECT_ID, QUBIC_SNAP_ID >>

nonSessionVars == << vaultVars, metaVars, seedVars, identityVars, envVars >>
nonVaultVars == << sessionVars, metaVars, seedVars, identityVars, envVars >>
nonMetaVars == << sessionVars, vaultVars, seedVars, identityVars, envVars >>
nonSeedVars == << sessionVars, vaultVars, metaVars, envVars >>
nonIdentityVars == << sessionVars, vaultVars, metaVars, seedVars, envVars >>

vars == << sessionVars, vaultVars, metaVars, seedVars, identityVars, envVars >>

(***************************************************************************)
(* Configuration (part_000:33-46 and 497-500); "" stands for undefined     *)
(***************************************************************************)
WALLETCONNECT_FALLBACK_PROJECT_ID == "197942ee5616373eb5a46007404eeffe"

EFFECTIVE_WALLETCONNECT_PROJECT_ID ==
  IF WALLETCONNECT_PROJECT_ID # "" THEN WALLETCONNECT_PROJECT_ID
  ELSE WALLETCONNECT_FALLBACK_PROJECT_ID

walletConnectProjectId == EFFECTIVE_WALLETCONNECT_PROJECT_ID

usingFallbackProjectId ==
  /\ WALLETCONNECT_PROJECT_ID = ""
  /\ walletConnectProjectId = WALLETCONNECT_FALLBACK_PROJECT_ID

\* part_000:1114-1128: the warning of the Qubic card ("" when there is
\* none); hasNativeQubic is what the detector of lines 508-516 last saw.
walletConnectWarning(hasNativeQubic) ==
  IF hasNativeQubic THEN ""
  ELSE IF walletConnectProjectId = "" THEN "set_project_id"
  ELSE IF usingFallbackProjectId THEN "demo_project_id"
  ELSE IF ~qubicReady THEN "preparing"
  ELSE ""

(***************************************************************************)
(* Pure helpers                                                            *)
(***************************************************************************)
\* part_000:439-444
parseQubicAccountString(value) ==
  IF Len(value) = 0 THEN NULL
  ELSE LET parts == value[1]
           namespace == IF Len(parts) >= 1 THEN parts[1] ELSE ""
           chainId == IF Len(parts) >= 2 THEN parts[2] ELSE ""
           address == IF Len(parts) >= 3 THEN parts[3] ELSE ""
       IN IF namespace = "" \/ chainId = "" \/ address = "" THEN NULL
          ELSE [namespace |-> namespace, chainId |-> chainId, address |-> address]

\* part_000:504-506
qubicSessionRef == qubicSession

\* part_000:757-779.  The record of React state hydrateQubicSession leaves.
Hydratable(session) ==
  session.ns /\ parseQubicAccountString(session.accounts) # NULL

HydratedSessionM(session, prev) ==
  LET primaryAccount == parseQubicAccountString(session.accounts)
  IN [topic |-> session.topic,
      address |-> primaryAccount.address,
      chainId |-> primaryAccount.chainId,
      expiry |-> session.expiry,
      accounts |-> IF prev # NULL THEN prev.accounts ELSE <<>>,
      transport |-> "walletconnect"]

HydratedSession(session, prev) ==
  LET primaryAccount == parseQubicAccountString(session.accounts)
  IN [topic |-> session.topic,
      address |-> primaryAccount.address,
      chainId |-> primaryAccount.chainId,
      expiry |-> IF session.expiry # 0 THEN session.expiry * 1000 ELSE 0,
      accounts |-> IF prev # NULL THEN prev.accounts ELSE <<>>,
      transport |-> "walletconnect"]

(***************************************************************************)
(* Session pipeline: fragments shared by several continuations             *)
(***************************************************************************)
\* part_000:757-779
hydrateQubicSession(session) ==
  IF Hydratable(session)
  THEN /\ qubicSession' = HydratedSession(session, qubicSession)
       /\ qubicStatus' = "connected"
       /\ qubicMessage' = "linked"
  ELSE UNCHANGED << qubicSession, qubicStatus, qubicMessage >>

SnapshotSessionM(s, ok, response) ==
  IF ok /\ Len(response) > 0 /\ s # NULL
  THEN [s EXCEPT !.accounts = response]
  ELSE NULL

\* part_000:793-810: the continuation of fetchAccountsSnapshot after
\* client.request settled (ok = resolved, response = its value), applied on
\* top of the session value s and message m written earlier in the same step.
SnapshotSession(s, ok, response) ==
  IF ok /\ Len(response) > 0 /\ s # NULL
  THEN [s EXCEPT !.accounts = response]
  ELSE s

SnapshotMessage(m, ok, response) ==
  IF ok /\ Len(response) > 0 THEN "linked" ELSE m

\* part_000:1057-1073
ConnectCatch ==
  /\ walletConnectUri' = ""
  /\ qubicStatus' = "error"
  /\ qubicMessage' = "error"

\* part_000:890-892
AllListeners == {"session_delete", "session_event", "session_update"}

\* A connectQubic invocation: pc is the await it is suspended at, topic the
\* topic of the session it disconnects or was approved; prev (the remote
\* topic the ref held when it was called) and cancelled (cancelPairing ran
\* while it awaited the approval) record its history.
ConnCall(pc, prev, topic) ==
  [pc |-> pc, prev |-> prev, topic |-> topic, cancelled |-> FALSE]
ConnIdle == ConnCall("idle", "", "")
ConnDone == ConnCall("done", "", "")
DiscIdle == [pc |-> "idle", topic |-> ""]
DiscDone == [pc |-> "done", topic |-> ""]

activeQubicSessionM ==
  LET withNs == { t \in Topics : wcSessions[t] # NULL /\ wcSessions[t].ns }
  IN IF withNs = {} THEN NULL
     ELSE wcSessions[CHOOSE t \in withNs :
                       \A u \in withNs : TopicIndex(t) <= TopicIndex(u)]

\* The most recently created stored session that carries the qubic
\* namespace (part_000:834-837).
activeQubicSession ==
  LET withNs == { t \in Topics : wcSessions[t] # NULL /\ wcSessions[t].ns }
  IN IF withNs = {} THEN NULL
     ELSE wcSessions[CHOOSE t \in withNs :
                       \A u \in withNs : TopicIndex(u) <= TopicIndex(t)]

(***************************************************************************)
(* Protocol client cache: getQubicSignClient (part_004:45-65)              *)
(***************************************************************************)
getQubicSignClientM(cache) == "pending"

\* The cache entry after a caller has passed lines 60-62.
getQubicSignClient(cache) == IF cache = "none" THEN "pending" ELSE cache

\* SignClient.init settles the cached promise.
ClientInitSettles ==
  /\ UNCHANGED nonSessionVars
  /\ clientCache = "pending"
  /\ \E ok \in BOOLEAN : clientCache' = IF ok THEN "ready" ELSE "failed"
  /\ UNCHANGED << qubicStatus, qubicMessage, qubicSession, walletConnectUri,
                  signClientRef, qubicReady, wcSessions,
                  wcListeners, wcDisconnectCalls, wcIssued, isMounted, detach, effectPc, effectTopic,
                  connectCalls, disconnectCalls, cancelCalls >>

(***************************************************************************)
(* Client init effect (part_000:815-919)                                   *)
(***************************************************************************)
\* Lines 829-842 and, when no stored session is adopted, 844-898.
EffectClientSettled ==
  /\ UNCHANGED nonSessionVars
  /\ effectPc = "client"
  /\ clientCache \in {"ready", "failed"}
  /\ IF ~isMounted
     THEN /\ effectPc' = "done"
          /\ UNCHANGED << qubicStatus, qubicMessage, qubicSession,
                          signClientRef, qubicReady, wcListeners, detach, effectTopic >>
     ELSE IF clientCache = "failed"
     THEN /\ effectPc' = "done"
          /\ qubicStatus' = "error"
          /\ qubicMessage' = "error"
          /\ UNCHANGED << qubicSession, signClientRef, qubicReady,
                          wcListeners, detach, effectTopic >>
     ELSE /\ signClientRef' = TRUE
          /\ qubicReady' = TRUE
          /\ IF activeQubicSession # NULL
             THEN /\ hydrateQubicSession(activeQubicSession)
                  /\ effectPc' = "snapshot"
                  /\ effectTopic' = activeQubicSession.topic
                  /\ UNCHANGED << wcListeners, detach >>
             ELSE /\ wcListeners' = AllListeners
                  /\ detach' = TRUE
                  /\ effectPc' = "done"
                  /\ UNCHANGED << qubicStatus, qubicMessage, qubicSession,
                                  effectTopic >>
  /\ UNCHANGED << walletConnectUri, clientCache, wcSessions,
                  wcDisconnectCalls, wcIssued, isMounted,
                  connectCalls, disconnectCalls, cancelCalls >>

\* Lines 841-898: fetchAccountsSnapshot settles, then the listeners are
\* registered and detach is assigned.
EffectSnapshotSettled ==
  /\ UNCHANGED nonSessionVars
  /\ effectPc = "snapshot"
  /\ \E ok \in BOOLEAN, response \in AccountLists(effectTopic) :
       /\ ok => wcSessions[effectTopic] # NULL
       /\ qubicSession' = SnapshotSession(qubicSession, ok, response)
       /\ qubicMessage' = SnapshotMessage(qubicMessage, ok, response)
  /\ wcListeners' = AllListeners
  /\ detach' = TRUE
  /\ effectPc' = "done"
  /\ UNCHANGED << qubicStatus, walletConnectUri, signClientRef, qubicReady,
                  clientCache, wcSessions, wcDisconnectCalls,
                  wcIssued, isMounted,
                  effectTopic, connectCalls, disconnectCalls, cancelCalls >>

\* Lines 910-913: the effect's cleanup.
Teardown ==
  /\ UNCHANGED nonSessionVars
  /\ isMounted
  /\ isMounted' = FALSE
  /\ wcListeners' = IF detach THEN wcListeners \ AllListeners ELSE wcListeners
  /\ UNCHANGED << qubicStatus, qubicMessage, qubicSession, walletConnectUri,
                  signClientRef, qubicReady, clientCache,
                  wcSessions, wcDisconnectCalls, wcIssued, detach, effectPc, effectTopic, connectCalls,
                  disconnectCalls, cancelCalls >>

(***************************************************************************)
(* connectQubic (part_000:958-1079)                                        *)
(***************************************************************************)
\* Lines 1037-1046, reached with a client in hand: disconnect the previous
\* remote session if the ref holds one, otherwise ask for a pairing.
ConnectWithClient(c, prev) ==
  IF qubicSessionRef # NULL /\ qubicSessionRef.topic # ""
       /\ qubicSessionRef.transport = "walletconnect"
  THEN /\ wcDisconnectCalls' = wcDisconnectCalls \cup {qubicSessionRef.topic}
       /\ connectCalls' = [connectCalls EXCEPT ![c] =
            ConnCall("disconnecting", prev, qubicSessionRef.topic)]
  ELSE /\ connectCalls' = [connectCalls EXCEPT ![c] =
            ConnCall("pairing", prev, "")]
       /\ UNCHANGED wcDisconnectCalls

\* The remote session the ref holds when connect is called ("" if none).
RemoteTopicOfRef ==
  IF qubicSessionRef # NULL /\ qubicSessionRef.transport = "walletconnect"
  THEN qubicSessionRef.topic ELSE ""

\* Lines 958-1035: the synchronous prefix of a connect call; nativeProvider
\* is whether window.qubic is present at that moment.
ConnectStart(c, nativeProvider) ==
  /\ UNCHANGED nonSessionVars
  /\ isMounted
  /\ connectCalls[c].pc = "idle"
  /\ \A b \in ConnIds : b < c => connectCalls[b].pc # "idle"
  /\ IF nativeProvider
     THEN /\ qubicStatus' = "connecting"
          /\ qubicMessage' = "progress"
          /\ connectCalls' = [connectCalls EXCEPT ![c] =
               ConnCall("native", RemoteTopicOfRef, "")]
          /\ UNCHANGED << wcDisconnectCalls, clientCache >>
     ELSE IF walletConnectProjectId = ""
     THEN /\ qubicStatus' = "error"
          /\ qubicMessage' = "error"
          /\ connectCalls' = [connectCalls EXCEPT ![c] = ConnDone]
          /\ UNCHANGED << wcDisconnectCalls, clientCache >>
     ELSE /\ qubicStatus' = "connecting"
          /\ qubicMessage' = "progress"
          /\ IF signClientRef
             THEN /\ ConnectWithClient(c, RemoteTopicOfRef)
                  /\ UNCHANGED clientCache
             ELSE /\ clientCache' = getQubicSignClient(clientCache)
                  /\ connectCalls' = [connectCalls EXCEPT ![c] =
                       ConnCall("client", RemoteTopicOfRef, "")]
                  /\ UNCHANGED wcDisconnectCalls
  /\ UNCHANGED << qubicSession, walletConnectUri, signClientRef, qubicReady,
                  wcSessions, wcListeners, wcIssued, isMounted, detach, effectPc,
                  effectTopic, disconnectCalls, cancelCalls >>

ConnectNativeSettledM(c) ==
  /\ UNCHANGED nonSessionVars
  /\ connectCalls[c].pc = "native"
  /\ \E kind \in {"object", "string", "empty", "reject"} :
       IF kind \in {"object", "string"}
       THEN /\ qubicSession' =
                 [topic |-> NATIVE_TOPIC,
                  address |-> "NATIVEADDR",
                  chainId |-> "mainnet",
                  expiry |-> 0,
                  accounts |-> IF kind = "object" THEN <<"NATIVEADDR">>
                               ELSE <<>>,
                  transport |-> "native"]
            /\ qubicStatus' = "connected"
            /\ qubicMessage' = "linked"
            /\ connectCalls' = [connectCalls EXCEPT ![c] = ConnDone]
       ELSE /\ qubicStatus' = "error"
            /\ qubicMessage' = "error"
            /\ connectCalls' = [connectCalls EXCEPT ![c] = ConnDone]
            /\ qubicSession' = NULL
  /\ UNCHANGED << walletConnectUri, signClientRef, qubicReady, clientCache, wcSessions, wcListeners, wcDisconnectCalls,
                  wcIssued, isMounted, detach,
                  effectPc, effectTopic, disconnectCalls, cancelCalls >>

\* Lines 965-1018: the native provider's request settles.
\* kind: "object" (account object with an address), "string" (bare address),
\* "empty" (no address readable), "reject" (the request throws).
ConnectNativeSettled(c) ==
  /\ UNCHANGED nonSessionVars
  /\ connectCalls[c].pc = "native"
  /\ \E kind \in {"object", "string", "empty", "reject"} :
       IF kind \in {"object", "string"}
       THEN /\ qubicSession' =
                 [topic |-> NATIVE_TOPIC,
                  address |-> "NATIVEADDR",
                  chainId |-> "mainnet",
                  expiry |-> 0,
                  accounts |-> IF kind = "object" THEN <<"NATIVEADDR">>
                               ELSE <<>>,
                  transport |-> "native"]
            /\ qubicStatus' = "connected"
            /\ qubicMessage' = "linked"
            /\ connectCalls' = [connectCalls EXCEPT ![c] = ConnDone]
       ELSE /\ qubicStatus' = "error"
            /\ qubicMessage' = "error"
            /\ connectCalls' = [connectCalls EXCEPT ![c] = ConnDone]
            /\ UNCHANGED qubicSession
  /\ UNCHANGED << walletConnectUri, signClientRef, qubicReady, clientCache, wcSessions, wcListeners, wcDisconnectCalls,
                  wcIssued, isMounted, detach,
                  effectPc, effectTopic, disconnectCalls, cancelCalls >>

\* Lines 1033-1046: the awaited getQubicSignClient settles.  The effect
\* awaits the same promise since the first render, so its continuation has
\* run before this one.
ConnectClientSettled(c) ==
  /\ UNCHANGED nonSessionVars
  /\ connectCalls[c].pc = "client"
  /\ clientCache \in {"ready", "failed"}
  /\ effectPc # "client"
  /\ IF clientCache = "ready"
     THEN /\ signClientRef' = TRUE
          /\ ConnectWithClient(c, connectCalls[c].prev)
          /\ UNCHANGED << walletConnectUri, qubicStatus, qubicMessage >>
     ELSE /\ ConnectCatch
          /\ connectCalls' = [connectCalls EXCEPT ![c] = ConnDone]
          /\ UNCHANGED << signClientRef, wcDisconnectCalls >>
  /\ UNCHANGED << qubicSession, qubicReady, clientCache,
                  wcSessions, wcListeners, wcIssued, isMounted, detach, effectPc, effectTopic,
                  disconnectCalls, cancelCalls >>

\* Lines 1038-1046: client.disconnect of the previous session settles.
ConnectDisconnectSettled(c) ==
  /\ UNCHANGED nonSessionVars
  /\ connectCalls[c].pc = "disconnecting"
  /\ \E ok \in BOOLEAN :
       IF ok
       THEN /\ wcSessions[connectCalls[c].topic] # NULL
            /\ wcSessions' = [wcSessions EXCEPT ![connectCalls[c].topic] = NULL]
            /\ connectCalls' = [connectCalls EXCEPT ![c].pc = "pairing"]
            /\ UNCHANGED << walletConnectUri, qubicStatus, qubicMessage >>
       ELSE /\ ConnectCatch
            /\ connectCalls' = [connectCalls EXCEPT ![c] = ConnDone]
            /\ UNCHANGED wcSessions
  /\ UNCHANGED << qubicSession, signClientRef, qubicReady, clientCache, wcListeners, wcDisconnectCalls, wcIssued, isMounted, detach, effectPc, effectTopic,
                  disconnectCalls, cancelCalls >>

\* Lines 1044-1053: client.connect settles with { uri, approval }.
ConnectPairingSettled(c) ==
  /\ UNCHANGED nonSessionVars
  /\ connectCalls[c].pc = "pairing"
  /\ \E ok \in BOOLEAN, uri \in {"", "wc:uri"} :
       IF ok
       THEN /\ IF uri # ""
               THEN /\ walletConnectUri' = uri
                    /\ qubicMessage' = "progress"
               ELSE UNCHANGED << walletConnectUri, qubicMessage >>
            /\ connectCalls' = [connectCalls EXCEPT ![c].pc = "approval"]
            /\ UNCHANGED qubicStatus
       ELSE /\ ConnectCatch
            /\ connectCalls' = [connectCalls EXCEPT ![c] = ConnDone]
  /\ UNCHANGED << qubicSession, signClientRef, qubicReady, clientCache, wcSessions, wcListeners, wcDisconnectCalls,
                  wcIssued, isMounted, detach,
                  effectPc, effectTopic, disconnectCalls, cancelCalls >>

\* Lines 1053-1056: approval() settles; on approval the wallet has created
\* the protocol session of the next topic.
ConnectApprovalSettled(c) ==
  /\ UNCHANGED nonSessionVars
  /\ connectCalls[c].pc = "approval"
  /\ \/ /\ wcIssued < MaxTopics
        /\ \E session \in StructChoices(TopicOrder[wcIssued + 1]) :
             /\ wcSessions' = [wcSessions EXCEPT ![session.topic] = session]
             /\ wcIssued' = wcIssued + 1
             /\ walletConnectUri' = ""
             /\ hydrateQubicSession(session)
             /\ connectCalls' = [connectCalls EXCEPT ![c].pc = "snapshot",
                                   ![c].topic = session.topic]
     \/ /\ ConnectCatch
        /\ connectCalls' = [connectCalls EXCEPT ![c] = ConnDone]
        /\ UNCHANGED << qubicSession, wcSessions, wcIssued >>
  /\ UNCHANGED << signClientRef, qubicReady, clientCache,
                  wcListeners, wcDisconnectCalls, isMounted,
                  detach, effectPc, effectTopic, disconnectCalls, cancelCalls >>

\* Line 1056: the awaited fetchAccountsSnapshot settles.
ConnectSnapshotSettled(c) ==
  /\ UNCHANGED nonSessionVars
  /\ connectCalls[c].pc = "snapshot"
  /\ \E ok \in BOOLEAN, response \in AccountLists(connectCalls[c].topic) :
       /\ ok => wcSessions[connectCalls[c].topic] # NULL
       /\ qubicSession' = SnapshotSession(qubicSession, ok, response)
       /\ qubicMessage' = SnapshotMessage(qubicMessage, ok, response)
  /\ connectCalls' = [connectCalls EXCEPT ![c] = ConnDone]
  /\ UNCHANGED << qubicStatus, walletConnectUri, signClientRef, qubicReady,
                  clientCache, wcSessions, wcListeners,
                  wcDisconnectCalls, wcIssued,
                  isMounted, detach, effectPc, effectTopic, disconnectCalls, cancelCalls >>

(***************************************************************************)
(* disconnectQubic (part_000:1081-1101) and cancelPairing (1103-1107)      *)
(***************************************************************************)
DisconnectClearM ==
  /\ qubicSession' = NULL
  /\ qubicMessage' = "ended"
  /\ UNCHANGED qubicStatus

\* Lines 1098-1100.
DisconnectClear ==
  /\ qubicSession' = NULL
  /\ qubicStatus' = "idle"
  /\ qubicMessage' = "ended"

NoSessionReturnM == DisconnectClear

\* Line 1083: the early return when the ref holds no session.
NoSessionReturn == UNCHANGED << qubicSession, qubicStatus, qubicMessage >>

\* Lines 1082-1092: the synchronous prefix of a disconnect call.
DisconnectStart(d) ==
  /\ UNCHANGED nonSessionVars
  /\ isMounted
  /\ disconnectCalls[d].pc = "idle"
  /\ \A b \in DiscIds : b < d => disconnectCalls[b].pc # "idle"
  /\ IF qubicSessionRef = NULL
     THEN /\ disconnectCalls' = [disconnectCalls EXCEPT ![d] = DiscDone]
          /\ NoSessionReturn
          /\ UNCHANGED << clientCache, wcDisconnectCalls >>
     ELSE IF qubicSessionRef.transport = "walletconnect"
               /\ walletConnectProjectId # ""
     THEN IF signClientRef
          THEN /\ wcDisconnectCalls' =
                    wcDisconnectCalls \cup {qubicSessionRef.topic}
               /\ disconnectCalls' = [disconnectCalls EXCEPT ![d] =
                    [pc |-> "disconnecting", topic |-> qubicSessionRef.topic]]
               /\ UNCHANGED << qubicSession, qubicStatus, qubicMessage,
                               clientCache >>
          ELSE /\ clientCache' = getQubicSignClient(clientCache)
               /\ disconnectCalls' = [disconnectCalls EXCEPT ![d] =
                    [pc |-> "client", topic |-> qubicSessionRef.topic]]
               /\ UNCHANGED << qubicSession, qubicStatus, qubicMessage,
                               wcDisconnectCalls >>
     ELSE /\ DisconnectClear
          /\ disconnectCalls' = [disconnectCalls EXCEPT ![d] = DiscDone]
          /\ UNCHANGED << clientCache, wcDisconnectCalls >>
  /\ UNCHANGED << walletConnectUri, signClientRef, qubicReady, wcSessions, wcListeners, wcIssued, isMounted, detach, effectPc, effectTopic,
                  connectCalls, cancelCalls >>

\* Lines 1087-1100: the promise the call awaits settles.  At "client" it is
\* getQubicSignClient (then client.disconnect is invoked, or the catch runs);
\* at "disconnecting" it is client.disconnect, and lines 1098-1100 run either
\* way.
DisconnectSettled(d) ==
  /\ UNCHANGED nonSessionVars
  /\ disconnectCalls[d].pc \in {"client", "disconnecting"}
  /\ IF disconnectCalls[d].pc = "client"
     THEN /\ clientCache \in {"ready", "failed"}
          /\ IF clientCache = "ready"
             THEN /\ wcDisconnectCalls' =
                       wcDisconnectCalls \cup {disconnectCalls[d].topic}
                  /\ disconnectCalls' =
                       [disconnectCalls EXCEPT ![d].pc = "disconnecting"]
                  /\ UNCHANGED << qubicSession, qubicStatus, qubicMessage >>
             ELSE /\ DisconnectClear
                  /\ disconnectCalls' = [disconnectCalls EXCEPT ![d] = DiscDone]
                  /\ UNCHANGED wcDisconnectCalls
          /\ UNCHANGED wcSessions
     ELSE /\ \E ok \in BOOLEAN :
               IF ok
               THEN /\ wcSessions[disconnectCalls[d].topic] # NULL
                    /\ wcSessions' =
                         [wcSessions EXCEPT ![disconnectCalls[d].topic] = NULL]
               ELSE UNCHANGED wcSessions
          /\ DisconnectClear
          /\ disconnectCalls' = [disconnectCalls EXCEPT ![d] = DiscDone]
          /\ UNCHANGED wcDisconnectCalls
  /\ UNCHANGED << walletConnectUri, signClientRef, qubicReady, clientCache,
                  wcListeners, wcIssued, isMounted, detach, effectPc,
                  effectTopic, connectCalls, cancelCalls >>

cancelPairingM ==
  /\ UNCHANGED nonSessionVars
  /\ isMounted
  /\ walletConnectUri # ""
  /\ cancelCalls < MaxCancelCalls
  /\ cancelCalls' = cancelCalls + 1
  /\ walletConnectUri' = ""
  /\ qubicStatus' = "idle"
  /\ qubicMessage' = "ended"
  /\ connectCalls' = [c \in ConnIds |->
       IF connectCalls[c].pc = "approval"
       THEN [connectCalls[c] EXCEPT !.cancelled = TRUE]
       ELSE connectCalls[c]]
  /\ UNCHANGED << qubicSession, signClientRef, qubicReady, clientCache,
                  wcSessions, wcListeners, wcDisconnectCalls, wcIssued,
                  isMounted, detach, effectPc, effectTopic, disconnectCalls >>

\* Lines 1103-1107, called from the "Cancel pairing" button, which the card
\* renders inside the QR panel, that is while walletConnectUri is set
\* (part_000:3840-3868).
cancelPairing ==
  /\ UNCHANGED nonSessionVars
  /\ isMounted
  /\ walletConnectUri # ""
  /\ cancelCalls < MaxCancelCalls
  /\ cancelCalls' = cancelCalls + 1
  /\ walletConnectUri' = ""
  /\ qubicStatus' = IF qubicSessionRef # NULL THEN "connected" ELSE "idle"
  /\ qubicMessage' = "ended"
  /\ connectCalls' = [c \in ConnIds |->
       IF connectCalls[c].pc = "approval"
       THEN [connectCalls[c] EXCEPT !.cancelled = TRUE]
       ELSE connectCalls[c]]
  /\ UNCHANGED << qubicSession, signClientRef, qubicReady, clientCache,
                  wcSessions, wcListeners, wcDisconnectCalls, wcIssued,
                  isMounted, detach, effectPc, effectTopic, disconnectCalls >>

(***************************************************************************)
(* Protocol events (handlers at part_000:844-888)                          *)
(***************************************************************************)
QUBIC_EVENTS == {"accountsChanged", "amountChanged", "assetAmountChanged"}
EventNames == QUBIC_EVENTS \cup {"chainChanged"}

handleSessionDeleteM(topic) ==
  IF qubicSessionRef # NULL /\ qubicSessionRef.topic = topic
       /\ qubicSessionRef.transport = "walletconnect"
  THEN /\ qubicSession' = NULL
       /\ qubicMessage' = "ended"
       /\ UNCHANGED qubicStatus
  ELSE UNCHANGED << qubicSession, qubicStatus, qubicMessage >>

\* Lines 844-855: the wallet ends the session of topic t; the client drops
\* it from its store and emits session_delete.
handleSessionDelete(topic) ==
  IF qubicSessionRef # NULL /\ qubicSessionRef.topic = topic
       /\ qubicSessionRef.transport = "walletconnect"
  THEN /\ qubicSession' = NULL
       /\ qubicStatus' = "idle"
       /\ qubicMessage' = "ended"
  ELSE UNCHANGED << qubicSession, qubicStatus, qubicMessage >>

SessionDelete(t) ==
  /\ UNCHANGED nonSessionVars
  /\ clientCache = "ready"
  /\ wcSessions[t] # NULL
  /\ wcSessions' = [wcSessions EXCEPT ![t] = NULL]
  /\ IF "session_delete" \in wcListeners
     THEN handleSessionDelete(t)
     ELSE UNCHANGED << qubicSession, qubicStatus, qubicMessage >>
  /\ UNCHANGED << walletConnectUri, signClientRef, qubicReady, clientCache, wcListeners, wcDisconnectCalls, wcIssued, isMounted, detach, effectPc,
                  effectTopic, connectCalls, disconnectCalls, cancelCalls >>

handleSessionEventM(topic, chainOk, name, isArray, data) ==
  IF chainOk /\ name \in QUBIC_EVENTS
  THEN /\ qubicSession' =
            IF isArray /\ qubicSession # NULL
            THEN [qubicSession EXCEPT !.accounts = data, !.expiry = 0]
            ELSE qubicSession
       /\ qubicMessage' = "wallet_reported"
  ELSE UNCHANGED << qubicSession, qubicMessage >>

\* Lines 857-879.  chainOk: params.chainId is "qubic:mainnet"; isArray:
\* params.event.data is an array, data its value.
handleSessionEvent(topic, chainOk, name, isArray, data) ==
  IF chainOk /\ name \in QUBIC_EVENTS
  THEN /\ qubicSession' =
            IF isArray /\ qubicSession # NULL
            THEN [qubicSession EXCEPT !.accounts = data]
            ELSE qubicSession
       /\ qubicMessage' = "wallet_reported"
  ELSE UNCHANGED << qubicSession, qubicMessage >>

SessionEvent(t) ==
  /\ UNCHANGED nonSessionVars
  /\ clientCache = "ready"
  /\ wcSessions[t] # NULL
  /\ "session_event" \in wcListeners
  /\ \E chainOk \in BOOLEAN, name \in EventNames, isArray \in BOOLEAN,
        data \in AccountLists(t) :
       handleSessionEvent(t, chainOk, name, isArray, data)
  /\ UNCHANGED << qubicStatus, walletConnectUri, signClientRef, qubicReady,
                  clientCache, wcSessions, wcListeners,
                  wcDisconnectCalls, wcIssued,
                  isMounted, detach, effectPc, effectTopic, connectCalls,
                  disconnectCalls, cancelCalls >>

\* Lines 881-888: the wallet updates the session of topic t; the client
\* stores the new value and emits session_update.
handleSessionUpdate(topic, store) ==
  IF store[topic] # NULL
  THEN hydrateQubicSession(store[topic])
  ELSE UNCHANGED << qubicSession, qubicStatus, qubicMessage >>

SessionUpdate(t) ==
  /\ UNCHANGED nonSessionVars
  /\ clientCache = "ready"
  /\ wcSessions[t] # NULL
  /\ \E session \in StructChoices(t) :
       /\ wcSessions' = [wcSessions EXCEPT ![t] = session]
       /\ IF "session_update" \in wcListeners
          THEN handleSessionUpdate(t, wcSessions')
          ELSE UNCHANGED << qubicSession, qubicStatus, qubicMessage >>
  /\ UNCHANGED << walletConnectUri, signClientRef, qubicReady, clientCache, wcListeners, wcDisconnectCalls, wcIssued, isMounted, detach, effectPc,
                  effectTopic, connectCalls, disconnectCalls, cancelCalls >>

(***************************************************************************)
(* Vault pipeline: values                                                  *)
(***************************************************************************)
\* A string of a vault entry, abstracted to what the patterns test: its
\* character class ("lower" a-z, "upper" A-Z, "hex" hex digits, "0xhex" hex
\* digits behind a 0x prefix, "other"), its length, and its identity.
Str(cls, len, id) == [cls |-> cls, len |-> len, id |-> id]
Absent == Str("absent", 0, "")

\* "hexletters" is the class of strings of the letters a-f, which are
\* lower-case letters and hex digits at once, "HEXLETTERS" that of the
\* letters A-F.
LowerLetters == {"lower", "hexletters"}
HexDigits == {"hex", "hexletters", "HEXLETTERS"}

\* part_000:243-251
isQubicSeed(value) == value.cls \in LowerLetters /\ value.len >= 55

StripHexPrefix(value) ==
  IF value.cls = "0xhex" THEN Str("hex", value.len - 2, value.id) ELSE value

isHexPrivateKey(value) ==
  StripHexPrefix(value).cls \in HexDigits /\ StripHexPrefix(value).len = 64

isQubicIdentity(value) == value.cls = "upper" /\ value.len = 60

\* part_000:309-311
normalizeSeedInput(value) ==
  IF value.cls = "upper"
  THEN Str("lower", value.len, "lc:" \o value.id)
  ELSE IF value.cls = "HEXLETTERS"
  THEN Str("hexletters", value.len, "lc:" \o value.id)
  ELSE value

normalizePrivateKeyInput(value) == StripHexPrefix(value)

\* The identity service (part_002:40-66): the public id it derives from a
\* seed or a private key.
PublicIdOf(secret) == "ID:" \o secret.id

\* part_000:91-99
Entry(name, alias, seed, privateKey, publicId, publicKey) ==
  [type |-> "entry", name |-> name, alias |-> alias, seed |-> seed,
   privateKey |-> privateKey, publicId |-> publicId, publicKey |-> publicKey]

\* part_000:329.  "" stands for an undefined name.
Label(entry) == IF entry.name # "" THEN entry.name ELSE entry.alias

\* part_000:117-122 (the balance is left out)
VaultAccount(name, source, publicId) ==
  [name |-> name, source |-> source, publicId |-> publicId]

EntryPlanM(entry) ==
  IF entry.privateKey # Absent
       /\ isHexPrivateKey(normalizePrivateKeyInput(entry.privateKey))
  THEN "privateKey"
  ELSE IF entry.seed # Absent /\ isQubicSeed(normalizeSeedInput(entry.seed))
  THEN "seed"
  ELSE LET identityCandidate ==
             IF entry.publicId # Absent THEN entry.publicId ELSE entry.publicKey
       IN IF identityCandidate # Absent /\ isQubicIdentity(identityCandidate)
          THEN "publicKey"
          ELSE "none"

\* part_000:326-365.  The branch deriveVaultAccount takes for an entry.
EntryPlan(entry) ==
  IF entry.seed # Absent /\ isQubicSeed(normalizeSeedInput(entry.seed))
  THEN "seed"
  ELSE IF entry.privateKey # Absent
            /\ isHexPrivateKey(normalizePrivateKeyInput(entry.privateKey))
  THEN "privateKey"
  ELSE LET identityCandidate ==
             IF entry.publicId # Absent THEN entry.publicId ELSE entry.publicKey
       IN IF identityCandidate # Absent /\ isQubicIdentity(identityCandidate)
          THEN "publicKey"
          ELSE "none"

\* The account deriveVaultAccount returns when the identity service answers.
deriveVaultAccount(entry) ==
  IF EntryPlan(entry) = "seed"
  THEN VaultAccount(Label(entry), "seed",
                    PublicIdOf(normalizeSeedInput(entry.seed)))
  ELSE IF EntryPlan(entry) = "privateKey"
  THEN VaultAccount(Label(entry), "privateKey",
                    PublicIdOf(normalizePrivateKeyInput(entry.privateKey)))
  ELSE IF EntryPlan(entry) = "publicKey"
  THEN VaultAccount(IF Label(entry) # "" THEN Label(entry)
                    ELSE "Watch-only account",
                    "publicKey",
                    (IF entry.publicId # Absent THEN entry.publicId
                     ELSE entry.publicKey).id)
  ELSE NULL

\* JSON values as JSON.parse returns them.
JObject(fields) == [type |-> "object", fields |-> fields]
JArray(items) == [type |-> "array", items |-> items]
JString == [type |-> "string"]
Field(key, value) == [key |-> key, value |-> value]

HasKey(obj, key) == \E i \in 1..Len(obj.fields) : obj.fields[i].key = key
Get(obj, key) ==
  obj.fields[CHOOSE i \in 1..Len(obj.fields) : obj.fields[i].key = key].value

looksEncryptedVaultM(value) ==
  /\ value # NULL
  /\ value.type = "object"
  /\ HasKey(value, "ciphertext")
  /\ HasKey(value, "iv")
  /\ HasKey(value, "salt")

\* part_000:298-307
looksEncryptedVault(value) ==
  /\ value # NULL
  /\ value.type = "object"
  /\ HasKey(value, "cipher")
  /\ HasKey(value, "iv")
  /\ HasKey(value, "salt")

\* part_000:367-397
consume(candidate) ==
  IF candidate.type = "array"
  THEN SelectSeq(candidate.items, LAMBDA item : item.type = "entry")
  ELSE <<>>

RECURSIVE ConsumeKeys(_, _)
ConsumeKeys(obj, keys) ==
  IF keys = <<>> THEN <<>>
  ELSE (IF HasKey(obj, Head(keys)) THEN consume(Get(obj, Head(keys))) ELSE <<>>)
         \o ConsumeKeys(obj, Tail(keys))

RECURSIVE ConsumeValues(_)
ConsumeValues(fields) ==
  IF fields = <<>> THEN <<>>
  ELSE consume(Head(fields).value) \o ConsumeValues(Tail(fields))

VAULT_KEYS == <<"accounts", "wallets", "seeds", "entries", "data">>

collectVaultEntriesM(value) ==
  IF value.type = "array" THEN consume(value)
  ELSE IF value.type = "object"
  THEN IF \E i \in 1..Len(VAULT_KEYS) : HasKey(value, VAULT_KEYS[i])
       THEN ConsumeKeys(value, VAULT_KEYS)
       ELSE ConsumeValues(value.fields)
  ELSE <<>>

collectVaultEntries(value) ==
  IF value.type = "array" THEN consume(value)
  ELSE IF value.type = "object"
  THEN IF ConsumeKeys(value, VAULT_KEYS) # <<>>
       THEN ConsumeKeys(value, VAULT_KEYS)
       ELSE ConsumeValues(value.fields)
  ELSE <<>>

\* A text: its UTF-8 bytes, what JSON.parse makes of it (NULL when it throws
\* or yields null) and, for an encrypted container, the password that opens
\* it and the seeds it lists.
Text(bytes, json, password, seeds) ==
  [bytes |-> bytes, json |-> json, password |-> password, seeds |-> seeds]

\* A seed an encrypted container lists (types/qubic-vault.d.ts).
VaultSeed(alias, publicId, isOnlyWatch) ==
  [alias |-> alias, publicId |-> publicId, isOnlyWatch |-> isOnlyWatch]

SeedA == Str("lower", 55, "seedA")
SeedUpper == Str("upper", 56, "SEEDB")
KeyC == Str("0xhex", 66, "keyC")
IdD == Str("upper", 60, "IDD")
Junk == Str("other", 10, "junk")

PlainText ==
  Text(<<123, 1>>,
       JObject(<< Field("name", JString),
                  Field("accounts",
                        JArray(<< Entry("A", "", SeedA, Absent, Absent, Absent),
                                  Entry("", "b", Junk, Absent, Absent, Absent),
                                  Entry("", "", Absent, Absent, Absent, IdD) >>)) >>),
       "", <<>>)

KeysText ==
  Text(<<91, 2>>,
       JObject(<< Field("keys",
                        JArray(<< JString,
                                  Entry("", "k", SeedUpper, KeyC, Absent, Absent),
                                  Entry("P", "", Junk, KeyC, Absent, IdD)
                               >>)) >>),
       "", <<>>)

NoEntriesText == Text(<<123, 3>>, JObject(<< Field("name", JString) >>), "", <<>>)

BrokenText == Text(<<123, 4>>, NULL, "", <<>>)

WatchOnlyText ==
  Text(<<123, 6>>,
       JObject(<< Field("salt", JString), Field("iv", JString),
                  Field("cipher", JString), Field("accounts", JArray(<<>>)) >>),
       "pw", << VaultSeed("watch", "PUBW", TRUE) >>)

EncryptedText ==
  Text(<<123, 5>>,
       JObject(<< Field("cipher", JString), Field("iv", JString),
                  Field("salt", JString) >>),
       "pw",
       << VaultSeed("main", "PUBE", FALSE), VaultSeed("watch", "PUBW", TRUE),
          VaultSeed("", "PUBF", FALSE) >>)

\* A top-level array; its first entry has an unusable publicId in front of
\* a usable publicKey.
IdsText ==
  Text(<<91, 7>>,
       JArray(<< Entry("", "", Absent, Absent, Junk, IdD),
                 JString,
                 Entry("W", "", Junk, Junk, IdD, Absent) >>),
       "", <<>>)

\* Two of the five known fields, written in the file in the reverse of
\* their scanning order, around an array under another name.
MixedText ==
  Text(<<123, 8>>,
       JObject(<< Field("data",
                        JArray(<< Entry("D", "", SeedA, Absent, Absent, Absent) >>)),
                  Field("backup",
                        JArray(<< Entry("B", "", Absent, Absent, IdD, Absent) >>)),
                  Field("accounts",
                        JArray(<< Entry("A", "", Absent, KeyC, Absent, Absent) >>)) >>),
       "", <<>>)

\* A known field that holds no entry, next to an array under another name.
FallbackText ==
  Text(<<123, 9>>,
       JObject(<< Field("accounts", JArray(<<>>)),
                  Field("backup",
                        JArray(<< Entry("B", "", Absent, Absent, IdD, Absent) >>)) >>),
       "", <<>>)

\* Entries none of whose fields is usable.
JunkText ==
  Text(<<123, 10>>,
       JObject(<< Field("wallets",
                        JArray(<< Entry("J", "", Junk, Junk, Junk, Absent) >>)) >>),
       "", <<>>)

\* A file: raw text, or a zip archive with its entries in archive order.
ZipEntry(dir, json, text) == [dir |-> dir, json |-> json, text |-> text]
RawFile(name, text) == [name |-> name, zip |-> FALSE, text |-> text, entries |-> <<>>]
ZipFile(name, entries) ==
  [name |-> name, zip |-> TRUE, text |-> BrokenText, entries |-> entries]

Files ==
  { RawFile("plain.json", PlainText),
    ZipFile("plain.zip", << ZipEntry(TRUE, FALSE, BrokenText),
                            ZipEntry(FALSE, FALSE, NoEntriesText),
                            ZipEntry(FALSE, TRUE, PlainText) >>),
    RawFile("keys.json", KeysText),
    RawFile("broken.json", BrokenText),
    RawFile("ids.json", IdsText),
    RawFile("mixed.json", MixedText),
    RawFile("fallback.json", FallbackText),
    RawFile("junk.json", JunkText),
    RawFile("empty.json", NoEntriesText),
    ZipFile("dirs.zip", << ZipEntry(TRUE, FALSE, BrokenText) >>),
    RawFile("vault.qubic-vault", EncryptedText),
    ZipFile("vault.zip", << ZipEntry(FALSE, TRUE, WatchOnlyText) >>) }

FileNames == {file.name : file \in Files}
FileNamed(name) == CHOOSE file \in Files : file.name = name

Texts == {PlainText, KeysText, NoEntriesText, BrokenText, WatchOnlyText,
          EncryptedText, IdsText, MixedText, FallbackText, JunkText}

\* new TextDecoder().decode(buffer) (part_000:274)
TextDecode(bytes) == CHOOSE text \in Texts : text.bytes = bytes

RECURSIVE EntryBytes(_)
EntryBytes(entries) ==
  IF entries = <<>> THEN <<>>
  ELSE (IF Head(entries).dir THEN <<47>> ELSE Head(entries).text.bytes)
         \o EntryBytes(Tail(entries))

\* file.arrayBuffer(): a zip archive starts with the local file header
\* signature.
arrayBuffer(file) ==
  IF file.zip THEN <<80, 75, 3, 4>> \o EntryBytes(file.entries)
  ELSE file.text.bytes

\* part_000:266-270
isZipArchive(buffer) ==
  IF Len(buffer) < 4 THEN FALSE ELSE buffer[1] = 80 /\ buffer[2] = 75

\* part_000:272-288.  NULL stands for the thrown error.
extractVaultText(file) ==
  IF ~isZipArchive(arrayBuffer(file)) THEN TextDecode(arrayBuffer(file))
  ELSE LET files == file.entries
           find(wanted(_)) ==
             IF \E i \in 1..Len(files) : wanted(files[i])
             THEN files[CHOOSE i \in 1..Len(files) :
                          /\ wanted(files[i])
                          /\ \A j \in 1..(i - 1) : ~wanted(files[j])]
             ELSE NULL
           jsonFile ==
             IF find(LAMBDA entry : ~entry.dir /\ entry.json) # NULL
             THEN find(LAMBDA entry : ~entry.dir /\ entry.json)
             ELSE find(LAMBDA entry : ~entry.dir)
       IN IF jsonFile = NULL THEN NULL ELSE jsonFile.text

\* part_000:436-437
textToArrayBuffer(text) == text.bytes

\* part_000:175-189: SHA-256 scaled down to a 16-bit digest (a polynomial
\* over the bytes, then a multiplicative mix), written as four hex
\* digits.
ChecksumHexLen == 2

RECURSIVE DigestValue(_, _)
DigestValue(bytes, h) ==
  IF bytes = <<>> THEN h
  ELSE DigestValue(Tail(bytes), (h * 31 + Head(bytes)) % 65536)

digestHex(bytes) ==
  LET d == DigestValue(bytes, 7)
      \* d * 40503 modulo 2^16, the product taken in two halves
      v == ((d % 256) * 40503 + (d \div 256) * 14080) % 65536
  IN << v \div 4096, (v \div 256) % 16, (v \div 16) % 16, v % 16 >>

\* part_000:1393: checksum.slice(0, 32)
Checksum(buffer) == SubSeq(digestHex(buffer), 1, ChecksumHexLen)

\* part_000:101-107 (the staged File holds the buffer)
VaultUpload(buffer, name, checksum) ==
  [buffer |-> buffer, name |-> name, checksum |-> checksum]

\* part_000:72-84
VState(state, message) == [state |-> state, message |-> message]
VReady(fileName, checksum, accounts) ==
  [state |-> "ready", message |-> "ready", fileName |-> fileName,
   checksum |-> checksum, accounts |-> accounts]

isEncryptedVaultText(text) == looksEncryptedVault(text.json)

(***************************************************************************)
(* Vault pipeline: handlers                                                *)
(***************************************************************************)
\* The vault handlers in flight at once (file selections and unlocks) each
\* have a slot.
FileIds == 1..MaxVaultCalls
UnlockIds == 1..MaxVaultCalls

NoUpload == VaultUpload(<<>>, "", <<>>)

FileCall(pc, file) == [pc |-> pc, file |-> file]
FileIdle == FileCall("idle", "")

UnlockCall(pc, upload, password) ==
  [pc |-> pc, upload |-> upload, password |-> password]
UnlockIdle == UnlockCall("idle", NoUpload, "")

Passwords == {"", "pw", "bad"}

InFlight ==
  Cardinality({f \in FileIds : fileCalls[f].pc # "idle"})
    + Cardinality({u \in UnlockIds : unlockCalls[u].pc # "idle"})

\* What the promises of a Promise.all settled to, one per item: TRUE when the
\* item's derivation resolved, FALSE when the identity service rejected.
Outcomes(n) == [1..n -> BOOLEAN]

UsableM(derived) ==
  IF \E i \in 1..Len(derived) : derived[i] = NULL THEN <<>> ELSE derived

\* part_000:411-413 and 703-705
Usable(derived) == SelectSeq(derived, LAMBDA account : account # NULL)

\* part_000:400-409: the array Promise.all resolves to; a rejection is
\* caught and leaves null.
DerivedEntries(entries, outcome) ==
  [i \in 1..Len(entries) |->
     IF outcome[i] THEN deriveVaultAccount(entries[i]) ELSE NULL]

FileCatchM(message) ==
  /\ UNCHANGED vaultUpload
  /\ vaultState' = VState("error", message)

\* part_000:1422-1430
FileCatch(message) ==
  /\ vaultUpload' = NULL
  /\ vaultState' = VState("error", message)

\* part_000:1380-1383 and 424-429: what reading, hashing, extracting and
\* parsing make of each file (text is NULL when extraction throws).
Prepared ==
  [name \in FileNames |->
     LET file == FileNamed(name)
         buffer == arrayBuffer(file)
         text == extractVaultText(file)
     IN [checksum |-> Checksum(buffer),
         text |-> text,
         entries |-> IF text = NULL \/ text.json = NULL THEN <<>>
                     ELSE collectVaultEntries(text.json)]]

\* part_000:1372-1377.  A selection takes the first free slot.
handleFileSelection(f, file) ==
  /\ fileCalls[f] = FileIdle
  /\ \A g \in FileIds : g < f => fileCalls[g] # FileIdle
  /\ InFlight < MaxVaultCalls
  /\ UNCHANGED nonVaultVars
  /\ vaultState' = VState("processing", "preparing")
  /\ fileCalls' = [fileCalls EXCEPT ![f] = FileCall("prepare", file.name)]
  /\ UNCHANGED <<vaultUpload, vaultPassword, unlockCalls>>

\* An entry deriveVaultAccount answers without the identity service cannot
\* reject (part_000:326-365; fetchIdentitySnapshot, part_002:68-88, catches
\* its own failures), and one it returns null for needs no lookup at all.
CanReject(entry) == EntryPlan(entry) \in {"seed", "privateKey"}
NeedsLookup(entry) == EntryPlan(entry) # "none"

\* part_000:1380-1405 and 424-432: the file is read, hashed and extracted
\* (readable is FALSE when reading or hashing rejects); the upload is staged;
\* an encrypted container stops here.  A plaintext file that is not JSON, has
\* no entries or has no entry to look up is rejected by parsePlainVaultFile
\* without waiting for anything, so the catch runs in the same task.
FilePrepared(f, readable) ==
  /\ fileCalls[f].pc = "prepare"
  /\ UNCHANGED nonVaultVars
  /\ LET file == FileNamed(fileCalls[f].file)
         checksum == Prepared[file.name].checksum
         text == Prepared[file.name].text
         entries == Prepared[file.name].entries
     IN IF ~readable \/ text = NULL
        THEN /\ FileCatch(IF readable THEN "no_readable_entries" ELSE "unreadable")
             /\ fileCalls' = [fileCalls EXCEPT ![f] = FileIdle]
             /\ UNCHANGED vaultPassword
        ELSE /\ vaultPassword' = ""
             /\ IF isEncryptedVaultText(text)
                THEN /\ vaultUpload' = VaultUpload(textToArrayBuffer(text),
                                                   file.name, checksum)
                     /\ vaultState' = VState("idle", "encrypted_detected")
                     /\ fileCalls' = [fileCalls EXCEPT ![f] = FileIdle]
                ELSE IF text.json = NULL
                THEN /\ FileCatch("not_json")
                     /\ fileCalls' = [fileCalls EXCEPT ![f] = FileIdle]
                ELSE IF entries = <<>>
                THEN /\ FileCatch("no_entries")
                     /\ fileCalls' = [fileCalls EXCEPT ![f] = FileIdle]
                ELSE IF \A i \in 1..Len(entries) : ~NeedsLookup(entries[i])
                THEN /\ FileCatch("no_compatible")
                     /\ fileCalls' = [fileCalls EXCEPT ![f] = FileIdle]
                ELSE /\ vaultUpload' = VaultUpload(textToArrayBuffer(text),
                                                   file.name, checksum)
                     /\ fileCalls' = [fileCalls EXCEPT ![f].pc = "derive"]
                     /\ UNCHANGED vaultState
  /\ UNCHANGED unlockCalls

\* part_000:399-422 and 1405-1431: the lookups have settled and
\* parsePlainVaultFile settles.
FileParsed(f, outcome) ==
  /\ fileCalls[f].pc = "derive"
  /\ UNCHANGED nonVaultVars
  /\ LET file == FileNamed(fileCalls[f].file)
         entries == Prepared[file.name].entries
         accounts == Usable(DerivedEntries(entries, outcome))
     IN /\ outcome \in Outcomes(Len(entries))
        /\ \A i \in 1..Len(entries) : outcome[i] \/ CanReject(entries[i])
        /\ IF accounts = <<>> THEN FileCatch("no_compatible")
           ELSE /\ vaultUpload' = NULL
                /\ vaultState' = VReady(file.name, Prepared[file.name].checksum,
                                        accounts)
  /\ fileCalls' = [fileCalls EXCEPT ![f] = FileIdle]
  /\ UNCHANGED <<vaultPassword, unlockCalls>>

\* The password field (onPasswordChange = setVaultPassword).
setVaultPassword(password) ==
  /\ password # vaultPassword
  /\ UNCHANGED nonVaultVars
  /\ vaultPassword' = password
  /\ UNCHANGED <<vaultState, vaultUpload, fileCalls, unlockCalls>>

UnlockCatchM(message) ==
  /\ vaultState' = VState("error", message)
  /\ vaultUpload' = NULL
  /\ UNCHANGED vaultPassword

\* part_000:746-754
UnlockCatch(message) ==
  /\ vaultState' = VState("error", message)
  /\ UNCHANGED <<vaultUpload, vaultPassword>>

\* part_000:716-731 and 670-672.  A blank password is rejected by
\* unlockEncryptedVault without waiting for anything, so the catch runs in
\* the same task; an unlock that waits for the vault takes the first free
\* slot.
handleVaultUnlock(u) ==
  /\ IF vaultUpload = NULL \/ vaultPassword = ""
     THEN u = 1
     ELSE /\ unlockCalls[u] = UnlockIdle
          /\ \A v \in UnlockIds : v < u => unlockCalls[v] # UnlockIdle
          /\ InFlight < MaxVaultCalls
  /\ UNCHANGED nonVaultVars
  /\ IF vaultUpload = NULL
     THEN /\ vaultState' = VState("error", "upload_first")
          /\ UNCHANGED <<unlockCalls, vaultUpload, vaultPassword>>
     ELSE IF vaultPassword = ""
     THEN /\ UnlockCatch("enter_password")
          /\ UNCHANGED unlockCalls
     ELSE /\ vaultState' = VState("processing", "unlocking")
          /\ unlockCalls' = [unlockCalls EXCEPT ![u] =
                               UnlockCall("import", vaultUpload, vaultPassword)]
          /\ UNCHANGED <<vaultUpload, vaultPassword>>
  /\ UNCHANGED fileCalls

SpendableSeedsM(text) == text.seeds

\* part_000:679
SpendableSeeds(text) == SelectSeq(text.seeds, LAMBDA seed : ~seed.isOnlyWatch)

\* The seed vault.revealSeed returns for a listed seed.
revealSeed(seed) == Str("lower", 55, "seed-of:" \o seed.publicId)

\* part_000:690-695
UnlockedAccount(seed) ==
  VaultAccount(IF seed.alias # "" THEN seed.alias ELSE seed.publicId, "seed",
               PublicIdOf(revealSeed(seed)))

\* part_000:684-701: the array Promise.all resolves to.
DerivedSeeds(seeds, outcome) ==
  [i \in 1..Len(seeds) |->
     IF outcome[i] THEN UnlockedAccount(seeds[i]) ELSE NULL]

\* part_000:678-682: importAndUnlock settles.  The container opens only
\* under its own password, and may be corrupt.
UnlockImported(u, opened) ==
  /\ unlockCalls[u].pc = "import"
  /\ UNCHANGED nonVaultVars
  /\ LET call == unlockCalls[u]
         text == TextDecode(call.upload.buffer)
     IN /\ opened => /\ isEncryptedVaultText(text)
                     /\ call.password = text.password
        /\ IF ~opened
           THEN /\ UnlockCatch("unlock_failed")
                /\ unlockCalls' = [unlockCalls EXCEPT ![u] = UnlockIdle]
           ELSE IF SpendableSeeds(text) = <<>>
           THEN /\ UnlockCatch("no_spendable_seeds")
                /\ unlockCalls' = [unlockCalls EXCEPT ![u] = UnlockIdle]
           ELSE /\ unlockCalls' = [unlockCalls EXCEPT ![u].pc = "derive"]
                /\ UNCHANGED <<vaultState, vaultUpload, vaultPassword>>
  /\ UNCHANGED fileCalls

\* part_000:703-711 and 731-754: unlockEncryptedVault settles.
UnlockDerived(u, outcome) ==
  /\ unlockCalls[u].pc = "derive"
  /\ UNCHANGED nonVaultVars
  /\ LET call == unlockCalls[u]
         seeds == SpendableSeeds(TextDecode(call.upload.buffer))
         usable == Usable(DerivedSeeds(seeds, outcome))
     IN /\ outcome \in Outcomes(Len(seeds))
        /\ IF usable = <<>>
           THEN UnlockCatch("none_derived")
           ELSE /\ vaultUpload' = NULL
                /\ vaultPassword' = ""
                /\ vaultState' = VReady(call.upload.name, call.upload.checksum,
                                        usable)
  /\ unlockCalls' = [unlockCalls EXCEPT ![u] = UnlockIdle]
  /\ UNCHANGED fileCalls

resetVaultM ==
  /\ vaultState' = VState("idle", "")
  /\ UNCHANGED << sessionVars, metaVars, identityVars, envVars, seedCalls >>
  /\ seedState' = [state |-> "idle", message |-> ""]
  /\ vaultUpload' = NULL
  /\ vaultPassword' = ""
  /\ UNCHANGED <<fileCalls, unlockCalls>>

\* part_000:1458-1462
resetVault ==
  /\ vaultState' = VState("idle", "")
  /\ UNCHANGED nonVaultVars
  /\ vaultUpload' = NULL
  /\ vaultPassword' = ""
  /\ UNCHANGED <<fileCalls, unlockCalls>>

VaultInit ==
  /\ vaultState = VState("idle", "")
  /\ vaultUpload = NULL
  /\ vaultPassword = ""
  /\ fileCalls = [f \in FileIds |-> FileIdle]
  /\ unlockCalls = [u \in UnlockIds |-> UnlockIdle]

AllOutcomes == UNION {Outcomes(n) : n \in 0..MaxEntries}

VaultNext ==
  \/ \E f \in FileIds, file \in Files : handleFileSelection(f, file)
  \/ \E f \in FileIds, readable \in BOOLEAN : FilePrepared(f, readable)
  \/ \E f \in FileIds, outcome \in AllOutcomes : FileParsed(f, outcome)
  \/ \E password \in Passwords : setVaultPassword(password)
  \/ \E u \in UnlockIds : handleVaultUnlock(u)
  \/ \E u \in UnlockIds, opened \in BOOLEAN : UnlockImported(u, opened)
  \/ \E u \in UnlockIds, outcome \in AllOutcomes : UnlockDerived(u, outcome)
  \/ resetVault

(***************************************************************************)
(* MetaMask bridge: connectMetaMask (part_000:1164-1289)                   *)
(***************************************************************************)
MetaIds == 1..MaxMetaCalls

DEFAULT_QUBIC_SNAP_ID == "npm:@ardata-tech/qubic-wallet"

\* part_000:48-49: NEXT_PUBLIC_QUBIC_SNAP_ID not set, or set to the id of a
\* forked snap.
SnapIds == {DEFAULT_QUBIC_SNAP_ID, "npm:forked-qubic-snap"}

\* A connectMetaMask invocation: the await it is suspended at and the snap
\* id it works with (targetSnapId, then resolvedSnapId).
MetaCall(pc, snapId) == [pc |-> pc, snapId |-> snapId]
MetaIdle == MetaCall("idle", "")

\* part_000:140-145
QubicAccount(address, name) == [address |-> address, name |-> name]

\* part_000:1280-1288
MetaCatch ==
  /\ snapAccounts' = <<>>
  /\ metaStatus' = "error"
  /\ metaMessage' = "error"

\* part_000:1273-1279
MetaLinked(accounts) ==
  /\ snapAccounts' = accounts
  /\ metaStatus' = "connected"
  /\ metaMessage' = IF Len(accounts) > 1 THEN "loaded" ELSE "linked"

\* Lines 1165-1177: the synchronous prefix; provider is whether
\* window.ethereum.request exists.  Without it the call returns at once.
connectMetaMask(m, provider) ==
  /\ IF ~provider THEN m = 1
     ELSE /\ metaCalls[m] = MetaIdle
          /\ \A n \in MetaIds : n < m => metaCalls[n] # MetaIdle
  /\ UNCHANGED nonMetaVars
  /\ IF ~provider
     THEN /\ metaStatus' = "error"
          /\ metaMessage' = "flask_required"
          /\ UNCHANGED metaCalls
     ELSE /\ metaStatus' = "connecting"
          /\ metaMessage' = "requesting"
          /\ metaCalls' = [metaCalls EXCEPT ![m] = MetaCall("install", QUBIC_SNAP_ID)]
  /\ UNCHANGED snapAccounts

MetaInstallSettledM(m, result) ==
  /\ metaCalls[m].pc \in {"install", "installDefault"}
  /\ UNCHANGED nonMetaVars
  /\ IF result = "installed"
     THEN /\ metaCalls' = [metaCalls EXCEPT ![m].pc = "getSnaps"]
          /\ UNCHANGED << metaStatus, metaMessage, snapAccounts >>
     ELSE IF /\ metaCalls[m].pc = "install"
             /\ QUBIC_SNAP_ID # DEFAULT_QUBIC_SNAP_ID
     THEN /\ metaMessage' = "fallback"
          /\ metaCalls' = [metaCalls EXCEPT ![m] =
               MetaCall("installDefault", DEFAULT_QUBIC_SNAP_ID)]
          /\ UNCHANGED << metaStatus, snapAccounts >>
     ELSE /\ MetaCatch
          /\ metaCalls' = [metaCalls EXCEPT ![m] = MetaIdle]

\* Lines 1176-1213: wallet_requestSnaps settles.  result: "installed",
\* "unavailable" (not found in the registry, failed to fetch) or "rejected".
MetaInstallSettled(m, result) ==
  /\ metaCalls[m].pc \in {"install", "installDefault"}
  /\ UNCHANGED nonMetaVars
  /\ IF result = "installed"
     THEN /\ metaCalls' = [metaCalls EXCEPT ![m].pc = "getSnaps"]
          /\ UNCHANGED << metaStatus, metaMessage, snapAccounts >>
     ELSE IF /\ metaCalls[m].pc = "install"
             /\ result = "unavailable"
             /\ QUBIC_SNAP_ID # DEFAULT_QUBIC_SNAP_ID
     THEN /\ metaMessage' = "fallback"
          /\ metaCalls' = [metaCalls EXCEPT ![m] =
               MetaCall("installDefault", DEFAULT_QUBIC_SNAP_ID)]
          /\ UNCHANGED << metaStatus, snapAccounts >>
     ELSE /\ MetaCatch
          /\ metaCalls' = [metaCalls EXCEPT ![m] = MetaIdle]

\* Lines 1213-1238: wallet_getSnaps settles.  reply: the installed snaps hold
\* the target id ("exact"), a local build of it ("local"), neither
\* ("missing"), or the request is rejected.
MetaSnapsSettled(m, reply) ==
  /\ metaCalls[m].pc = "getSnaps"
  /\ UNCHANGED nonMetaVars
  /\ IF reply = "rejected"
     THEN /\ MetaCatch
          /\ metaCalls' = [metaCalls EXCEPT ![m] = MetaIdle]
     ELSE /\ metaCalls' = [metaCalls EXCEPT ![m] =
               MetaCall("accounts",
                        IF reply = "local" THEN "local:" \o metaCalls[m].snapId
                        ELSE metaCalls[m].snapId)]
          /\ UNCHANGED << metaStatus, metaMessage, snapAccounts >>

\* What the snap answers to qubic_requestAccounts: accounts, or an error
\* with a code.
SnapAccountReplies ==
  { [ok |-> TRUE, accounts |-> <<>>, code |-> 0],
    [ok |-> TRUE, accounts |-> << QubicAccount("SNAP_A", "first") >>, code |-> 0],
    [ok |-> TRUE, accounts |-> << QubicAccount("SNAP_A", "first"),
                                  QubicAccount("SNAP_B", "second") >>, code |-> 0],
    [ok |-> FALSE, accounts |-> <<>>, code |-> -32601],
    [ok |-> FALSE, accounts |-> <<>>, code |-> -32603],
    [ok |-> FALSE, accounts |-> <<>>, code |-> 4001] }

\* Lines 1227-1256 and, when accounts came back, 1269-1279.
MetaAccountsSettled(m, reply) ==
  /\ metaCalls[m].pc = "accounts"
  /\ UNCHANGED nonMetaVars
  /\ IF reply.ok /\ Len(reply.accounts) > 0
     THEN /\ MetaLinked(reply.accounts)
          /\ metaCalls' = [metaCalls EXCEPT ![m] = MetaIdle]
     ELSE IF reply.ok \/ reply.code \in {-32601, -32603}
     THEN /\ metaCalls' = [metaCalls EXCEPT ![m].pc = "publicId"]
          /\ UNCHANGED << metaStatus, metaMessage, snapAccounts >>
     ELSE /\ MetaCatch
          /\ metaCalls' = [metaCalls EXCEPT ![m] = MetaIdle]

\* Lines 1247-1288: getPublicId settles (ok = resolved, publicId its value).
MetaPublicIdSettled(m, ok, publicId) ==
  /\ metaCalls[m].pc = "publicId"
  /\ UNCHANGED nonMetaVars
  /\ IF ok /\ publicId # ""
     THEN MetaLinked(<< QubicAccount(publicId, "Qubic Snap") >>)
     ELSE MetaCatch
  /\ metaCalls' = [metaCalls EXCEPT ![m] = MetaIdle]

MetaInit ==
  /\ metaStatus = "idle"
  /\ metaMessage = ""
  /\ snapAccounts = <<>>
  /\ metaCalls = [m \in MetaIds |-> MetaIdle]

MetaNext ==
  \/ \E m \in MetaIds, provider \in BOOLEAN : connectMetaMask(m, provider)
  \/ \E m \in MetaIds, result \in {"installed", "unavailable", "rejected"} :
       MetaInstallSettled(m, result)
  \/ \E m \in MetaIds, reply \in {"exact", "local", "missing", "rejected"} :
       MetaSnapsSettled(m, reply)
  \/ \E m \in MetaIds, reply \in SnapAccountReplies : MetaAccountsSettled(m, reply)
  \/ \E m \in MetaIds, ok \in BOOLEAN, publicId \in {"", "SNAP_ID"} :
       MetaPublicIdSettled(m, ok, publicId)

(***************************************************************************)
(* Identity snapshots: fetchIdentitySnapshot (part_002:33-88)              *)
(***************************************************************************)
UNDEFINED == [undefined |-> TRUE]

\* part_002:33-36
IdentitySnapshot(balance, ownedAssets) ==
  [balance |-> balance, ownedAssets |-> ownedAssets]

\* What the two lookups of the identity service settle to: a response, or a
\* rejection.
BalanceReplies ==
  { [ok |-> FALSE, response |-> UNDEFINED],
    [ok |-> TRUE, response |-> [balance |-> [balance |-> "5"]]] }

AssetReplies ==
  { [ok |-> FALSE, response |-> UNDEFINED],
    [ok |-> TRUE, response |-> [ownedAssets |-> [items |-> <<"QX">>]]] }

SnapshotOfM(balance, ownedAssets) ==
  IF balance.ok /\ ownedAssets.ok
  THEN IdentitySnapshot(balance.response.balance,
                        ownedAssets.response.ownedAssets)
  ELSE IdentitySnapshot(UNDEFINED, UNDEFINED)

\* part_002:76-84: a rejected lookup is caught and reads as undefined.
SnapshotOf(balance, ownedAssets) ==
  IdentitySnapshot(
    IF balance.ok THEN balance.response.balance ELSE UNDEFINED,
    IF ownedAssets.ok THEN ownedAssets.response.ownedAssets ELSE UNDEFINED)

\* The identities the cards look up.
PublicIds == {"ID:lc:AMB", "ID:key0"}

\* part_002:71: identitySnapshotCache.has(publicId)
CacheHas(publicId) == identitySnapshotCache[publicId] # NULL

CachePutM(publicId, snapshot) ==
  [id \in PublicIds |-> IF id = publicId THEN snapshot ELSE NULL]

\* part_002:86: identitySnapshotCache.set(publicId, snapshot)
CachePut(publicId, snapshot) ==
  [identitySnapshotCache EXCEPT ![publicId] = snapshot]

\* A fetchIdentitySnapshot invocation made by a caller outside the seed
\* card (the vault importer's derivations): "lookups" while it awaits the
\* Promise.all of line 76, "hit" with its result once it has returned the
\* cached entry at line 72, "returned" with its result once it has returned
\* the merged snapshot at line 87.
FetchIds == 1..MaxFetchCalls
FetchCall(pc, publicId, result) ==
  [pc |-> pc, publicId |-> publicId, result |-> result]
FetchIdle == FetchCall("idle", "", NULL)

\* part_002:68-79: the synchronous prefix of a call.  A call takes the first
\* slot that is not awaiting its lookups.
fetchIdentitySnapshot(k, publicId) ==
  /\ fetchCalls[k].pc # "lookups"
  /\ \A j \in FetchIds : j < k => fetchCalls[j].pc = "lookups"
  /\ UNCHANGED nonIdentityVars
  /\ fetchCalls' = [fetchCalls EXCEPT ![k] =
       IF CacheHas(publicId)
       THEN FetchCall("hit", publicId, identitySnapshotCache[publicId])
       ELSE FetchCall("lookups", publicId, NULL)]
  /\ UNCHANGED identitySnapshotCache

\* part_002:76-87: both lookups have settled.
FetchSettled(k, balance, ownedAssets) ==
  /\ fetchCalls[k].pc = "lookups"
  /\ UNCHANGED nonIdentityVars
  /\ identitySnapshotCache' =
       CachePut(fetchCalls[k].publicId, SnapshotOf(balance, ownedAssets))
  /\ fetchCalls' = [fetchCalls EXCEPT ![k] =
       FetchCall("returned", fetchCalls[k].publicId,
                 SnapshotOf(balance, ownedAssets))]

IdentityInit ==
  /\ identitySnapshotCache = [id \in PublicIds |-> NULL]
  /\ fetchCalls = [k \in FetchIds |-> FetchIdle]

FetchNext ==
  \/ \E k \in FetchIds, publicId \in PublicIds : fetchIdentitySnapshot(k, publicId)
  \/ \E k \in FetchIds, balance \in BalanceReplies, ownedAssets \in AssetReplies :
       FetchSettled(k, balance, ownedAssets)

(***************************************************************************)
(* Seed pipeline: classifySeed (part_000:219-241) and handleSeedSubmit     *)
(* (part_000:1291-1370)                                                    *)
(***************************************************************************)
\* The text of the seed field: its words (maximal runs without whitespace)
\* and whether whitespace surrounds them.
SeedText(pad, words) == [pad |-> pad, words |-> words]

\* String.prototype.trim
trim(text) == SeedText(FALSE, text.words)

\* A trimmed text as one string: a word, the empty string, or a string
\* with whitespace inside.
Whole(text) ==
  IF Len(text.words) = 1 THEN text.words[1]
  ELSE IF text.words = <<>> THEN Str("empty", 0, "")
  ELSE Str("other", Len(text.words), "")

\* String.prototype.toLowerCase
toLowerCase(value) ==
  IF value.cls = "upper" THEN Str("lower", value.len, "lc:" \o value.id)
  ELSE IF value.cls = "HEXLETTERS"
  THEN Str("hexletters", value.len, "lc:" \o value.id)
  ELSE value

RECURSIVE TotalLen(_)
TotalLen(words) ==
  IF words = <<>> THEN 0 ELSE Head(words).len + TotalLen(Tail(words))

\* part_000:130-132; the descriptor strings of lines 229, 236, 1320, 1321.
Descriptor(kind, count) == [kind |-> kind, count |-> count]
NoDescriptor == Descriptor("", 0)
Classification(valid, descriptor) == [valid |-> valid, descriptor |-> descriptor]

classifySeedM(seed) ==
  LET words == trim(seed).words
      isMnemonic == Len(words) >= 12 /\ Len(words) < 24
      isHex == /\ words # <<>>
               /\ \A i \in 1..Len(words) : words[i].cls \in HexDigits
               /\ TotalLen(words) = 64
  IN IF isMnemonic
     THEN Classification(TRUE, Descriptor("mnemonic", Len(words)))
     ELSE IF isHex THEN Classification(TRUE, Descriptor("hex", 64))
     ELSE Classification(FALSE, NoDescriptor)

\* part_000:219-241
classifySeed(seed) ==
  LET words == trim(seed).words
      isMnemonic == Len(words) >= 12 /\ Len(words) <= 24
      isHex == /\ words # <<>>
               /\ \A i \in 1..Len(words) : words[i].cls \in HexDigits
               /\ TotalLen(words) = 64
  IN IF isMnemonic
     THEN Classification(TRUE, Descriptor("mnemonic", Len(words)))
     ELSE IF isHex THEN Classification(TRUE, Descriptor("hex", 64))
     ELSE Classification(FALSE, NoDescriptor)

Repeat(word, n) == [i \in 1..n |-> word]

\* What the user types into the seed field.
SeedInputs ==
  { SeedText(FALSE, <<>>),
    SeedText(TRUE, <<>>),
    SeedText(TRUE, << Str("HEXLETTERS", 64, "AMB") >>),
    SeedText(FALSE, << Str("0xhex", 66, "key0") >>),
    SeedText(FALSE, << Str("hex", 64, "key0") >>),
    SeedText(FALSE, << Str("lower", 54, "short") >>),
    SeedText(FALSE, Repeat(Str("lower", 7, "abandon"), 11)),
    SeedText(TRUE, Repeat(Str("lower", 7, "abandon"), 12)),
    SeedText(FALSE, Repeat(Str("lower", 7, "abandon"), 24)),
    SeedText(FALSE, Repeat(Str("lower", 7, "abandon"), 25)),
    SeedText(FALSE, << Str("hex", 32, "half"), Str("hex", 32, "half") >>) }

\* new TextEncoder().encode(data) (part_000:182), abstracted to what tells
\* the texts of the model apart: the class and length of the first word,
\* the number of words and the number of characters.
TextEncode(words) ==
  IF words = <<>> THEN <<>>
  ELSE LET code == CASE Head(words).cls = "lower" -> 97
                     [] Head(words).cls = "upper" -> 65
                     [] Head(words).cls = "hexletters" -> 102
                     [] Head(words).cls = "HEXLETTERS" -> 70
                     [] Head(words).cls = "hex" -> 48
                     [] OTHER -> 120
       IN << code, Head(words).len, Len(words),
             (TotalLen(words) + Len(words) - 1) % 256 >>

\* The fingerprint of a ready seed: the leading hex digits of a digest
\* (part_000:1356) or the tail of a public id (part_000:1318).
Fingerprint(hex, tail) == [hex |-> hex, tail |-> tail]

\* part_000:57-70
SState(state, message) == [state |-> state, message |-> message]
SReady(message, fingerprint, descriptor, identity) ==
  [state |-> "ready", message |-> message, fingerprint |-> fingerprint,
   descriptor |-> descriptor, identity |-> identity]

\* part_000:253-264 ("" and -1 stand for undefined)
buildSeedIdentityDetails(details, snapshot) ==
  [publicId |-> details.publicId,
   balance |-> IF snapshot.balance # UNDEFINED THEN snapshot.balance.balance
               ELSE "",
   ownedAssetCount |-> IF snapshot.ownedAssets # UNDEFINED
                       THEN Len(snapshot.ownedAssets.items) ELSE -1]

\* part_002:27-31 (the key material is left out)
DerivedIdentity(publicId) == [publicId |-> publicId]

IdentityPathM(normalized) == isQubicSeed(toLowerCase(Whole(normalized)))

\* part_000:1301-1313: the branch a submission takes and the secret it
\* hands to the identity service.
IdentityPath(normalized) ==
  \/ isQubicSeed(toLowerCase(Whole(normalized)))
  \/ isHexPrivateKey(Whole(normalized))

SeedSecret(normalized) ==
  IF isQubicSeed(toLowerCase(Whole(normalized)))
  THEN toLowerCase(Whole(normalized))
  ELSE normalizePrivateKeyInput(Whole(normalized))

\* part_000:1315-1323
SeedIdentityReady(normalized, snapshot) ==
  SReady("identity_derived",
         Fingerprint(<<>>, PublicIdOf(SeedSecret(normalized))),
         IF isQubicSeed(toLowerCase(Whole(normalized)))
         THEN Descriptor("qubic_seed", 0)
         ELSE Descriptor("raw_private_key", 0),
         buildSeedIdentityDetails(
           DerivedIdentity(PublicIdOf(SeedSecret(normalized))), snapshot))

\* A handleSeedSubmit invocation: the await it is suspended at and the
\* trimmed input it was called with.
SeedIds == 1..MaxSeedCalls
\* The slots of the hook: the handler takes no lock (part_000:1291-1370), so
\* one more submission than SeedIds holds can be in flight.
SeedSlots == 1..(MaxSeedCalls + 1)
SeedCall(pc, normalized) == [pc |-> pc, normalized |-> normalized]
SeedIdle == SeedCall("idle", SeedText(FALSE, <<>>))

\* part_000:1291-1352: the synchronous prefix of a submission; seedInput is
\* the text of the seed field (useState, line 487) when the form is
\* submitted.  An empty or unclassifiable input returns at once; any other
\* takes the first free slot.
handleSeedSubmit(s, seedInput) ==
  LET normalized == trim(seedInput)
      returns == \/ normalized.words = <<>>
                 \/ (~IdentityPath(normalized) /\ ~classifySeed(normalized).valid)
  IN /\ IF returns THEN s = 1
        ELSE /\ seedCalls[s] = SeedIdle
             /\ \A r \in SeedSlots : r < s => seedCalls[r] # SeedIdle
     /\ UNCHANGED nonSeedVars
     /\ IF normalized.words = <<>>
        THEN /\ seedState' = SState("invalid", "empty")
             /\ UNCHANGED seedCalls
        ELSE IF IdentityPath(normalized)
        THEN /\ seedState' = SState("processing", "deriving_identity")
             /\ seedCalls' = [seedCalls EXCEPT ![s] = SeedCall("derive", normalized)]
        ELSE IF ~classifySeed(normalized).valid
        THEN /\ seedState' = SState("invalid", "format")
             /\ UNCHANGED seedCalls
        ELSE /\ seedState' = SState("processing", "deriving_fingerprint")
             /\ seedCalls' = [seedCalls EXCEPT ![s] = SeedCall("hash", normalized)]
     /\ UNCHANGED identityVars

\* part_000:1311-1331 and part_002:68-74: the identity service settles the
\* derivation (ok = resolved); fetchIdentitySnapshot then answers from the
\* cache, or starts its lookups.
SeedDerived(s, ok) ==
  /\ seedCalls[s].pc = "derive"
  /\ UNCHANGED nonSeedVars
  /\ LET normalized == seedCalls[s].normalized
         publicId == PublicIdOf(SeedSecret(normalized))
     IN IF ~ok
        THEN /\ seedState' = SState("invalid", "derive_failed")
             /\ seedCalls' = [seedCalls EXCEPT ![s] = SeedIdle]
        ELSE IF CacheHas(publicId)
        THEN /\ seedState' =
                  SeedIdentityReady(normalized, identitySnapshotCache[publicId])
             /\ seedCalls' = [seedCalls EXCEPT ![s] = SeedIdle]
        ELSE /\ seedCalls' = [seedCalls EXCEPT ![s].pc = "snapshot"]
             /\ UNCHANGED seedState
  /\ UNCHANGED identityVars

\* part_002:76-87 and part_000:1314-1323: both lookups have settled.
SeedSnapshotSettled(s, balance, ownedAssets) ==
  /\ seedCalls[s].pc = "snapshot"
  /\ UNCHANGED nonSeedVars
  /\ LET normalized == seedCalls[s].normalized
         snapshot == SnapshotOf(balance, ownedAssets)
     IN /\ identitySnapshotCache' =
             CachePut(PublicIdOf(SeedSecret(normalized)), snapshot)
        /\ seedState' = SeedIdentityReady(normalized, snapshot)
  /\ seedCalls' = [seedCalls EXCEPT ![s] = SeedIdle]
  /\ UNCHANGED fetchCalls

SeedHashedM(s, ok) ==
  /\ seedCalls[s].pc = "hash"
  /\ UNCHANGED nonSeedVars
  /\ seedState' = SState("processing", "deriving_identity")
  /\ seedCalls' = [seedCalls EXCEPT ![s].pc = "derive"]
  /\ UNCHANGED identityVars

\* part_000:1351-1367 and 175-189: digestHex settles (ok = resolved; it
\* rejects where window.crypto.subtle is missing).
SeedHashed(s, ok) ==
  /\ seedCalls[s].pc = "hash"
  /\ UNCHANGED nonSeedVars
  /\ LET normalized == seedCalls[s].normalized
     IN seedState' =
          IF ok
          THEN SReady("imported",
                      Fingerprint(SubSeq(digestHex(TextEncode(normalized.words)),
                                         1, FingerprintHexLen), ""),
                      classifySeed(normalized).descriptor, NULL)
          ELSE SState("invalid", "hash_failed")
  /\ seedCalls' = [seedCalls EXCEPT ![s] = SeedIdle]
  /\ UNCHANGED identityVars

SeedInit ==
  /\ seedState = SState("idle", "")
  /\ seedCalls = [s \in SeedSlots |-> SeedIdle]

SeedNext ==
  \/ \E s \in SeedIds, seedInput \in SeedInputs : handleSeedSubmit(s, seedInput)
  \/ \E s \in SeedIds, ok \in BOOLEAN : SeedDerived(s, ok)
  \/ \E s \in SeedIds, balance \in BalanceReplies, ownedAssets \in AssetReplies :
       SeedSnapshotSettled(s, balance, ownedAssets)
  \/ \E s \in SeedIds, ok \in BOOLEAN : SeedHashed(s, ok)

\* Two submissions of the seed form: a seed or a raw private key, then a
\* mnemonic phrase entered while the first is still in flight.
FirstSeedInputs ==
  { SeedText(TRUE, << Str("HEXLETTERS", 64, "AMB") >>),
    SeedText(FALSE, << Str("hex", 64, "key0") >>) }
SecondSeedInputs ==
  { SeedText(TRUE, Repeat(Str("lower", 7, "abandon"), 12)),
    SeedText(FALSE, Repeat(Str("lower", 7, "abandon"), 24)) }

\* The first submission is made while nothing is in flight and takes slot 1;
\* the second takes slot 2, which handleSeedSubmit gives out only while slot 1
\* is busy, so a call of slot 2 was submitted after the call slot 1 holds.
SeedRaceNext ==
  \/ \E seedInput \in FirstSeedInputs :
       /\ \A s \in SeedSlots : seedCalls[s] = SeedIdle
       /\ handleSeedSubmit(1, seedInput)
  \/ \E seedInput \in SecondSeedInputs : handleSeedSubmit(2, seedInput)
  \/ \E s \in SeedSlots, ok \in BOOLEAN : SeedDerived(s, ok)
  \/ \E s \in SeedSlots, balance \in BalanceReplies, ownedAssets \in AssetReplies :
       SeedSnapshotSettled(s, balance, ownedAssets)
  \/ \E s \in SeedSlots, ok \in BOOLEAN : SeedHashed(s, ok)

(***************************************************************************)
(* Status projection (part_000:463-471, 921-956)                           *)
(***************************************************************************)
\* part_000:463-471
buildStatusDescriptor(label, state, description) ==
  [label |-> label, state |-> state, description |-> description]

seedConnectionStateM ==
  IF seedState.state = "ready" THEN "connected"
  ELSE IF seedState.state = "processing" THEN "connecting"
  ELSE "idle"

\* part_000:921-928
seedConnectionState ==
  IF seedState.state = "ready" THEN "connected"
  ELSE IF seedState.state = "processing" THEN "connecting"
  ELSE IF seedState.state = "invalid" THEN "error"
  ELSE "idle"

\* part_000:930-937
vaultConnectionState ==
  IF vaultState.state = "ready" THEN "connected"
  ELSE IF vaultState.state = "processing" THEN "connecting"
  ELSE IF vaultState.state = "error" THEN "error"
  ELSE "idle"

\* part_000:939-956
statusDescriptors ==
  << buildStatusDescriptor("Qubic Wallet", qubicStatus, qubicMessage),
     buildStatusDescriptor("MetaMask", metaStatus, metaMessage),
     buildStatusDescriptor("Seed Import", seedConnectionState, seedState.message),
     buildStatusDescriptor("Vault File", vaultConnectionState, vaultState.message) >>

(***************************************************************************)
(* Session pipeline specification                                          *)
(***************************************************************************)
\* The stores a browser can hold when the page loads: the first wcIssued
\* topics have been handed out before, each still stored or gone.
InitialStores ==
  { st \in [Topics -> {NULL} \cup UNION { StructChoices(t) : t \in Topics }] :
      \A t \in Topics : st[t] # NULL => st[t].topic = t }

ProjectIds == {"", "project-id"}

\* The hook after its first render: the client init effect (part_000:815-829)
\* has run up to its await; the browser's store holds sessions of at most
\* the first maxPreexisting topics.
SessionInitWith(maxPreexisting) ==
  /\ WALLETCONNECT_PROJECT_ID \in ProjectIds
  /\ qubicStatus = IF walletConnectProjectId = "" THEN "error" ELSE "idle"
  /\ qubicMessage = IF walletConnectProjectId = "" THEN "error" ELSE ""
  /\ qubicSession = NULL
  /\ walletConnectUri = ""
  /\ signClientRef = FALSE
  /\ qubicReady = FALSE
  /\ clientCache = IF walletConnectProjectId = "" THEN "none"
                   ELSE getQubicSignClient("none")
  /\ wcIssued \in 0..maxPreexisting
  /\ wcSessions \in { st \in InitialStores :
                        \A t \in Topics :
                          st[t] # NULL => TopicIndex(t) <= wcIssued }
  /\ wcListeners = {}
  /\ wcDisconnectCalls = {}
  /\ isMounted = TRUE
  /\ detach = FALSE
  /\ effectPc = IF walletConnectProjectId = "" THEN "done" ELSE "client"
  /\ effectTopic = ""
  /\ connectCalls = [c \in ConnIds |-> ConnIdle]
  /\ disconnectCalls = [d \in DiscIds |-> DiscIdle]
  /\ cancelCalls = 0

SessionNext ==
  \/ ClientInitSettles
  \/ EffectClientSettled
  \/ EffectSnapshotSettled
  \/ \E c \in ConnIds, nativeProvider \in BOOLEAN : ConnectStart(c, nativeProvider)
  \/ \E c \in ConnIds : ConnectNativeSettled(c)
  \/ \E c \in ConnIds : ConnectClientSettled(c)
  \/ \E c \in ConnIds : ConnectDisconnectSettled(c)
  \/ \E c \in ConnIds : ConnectPairingSettled(c)
  \/ \E c \in ConnIds : ConnectApprovalSettled(c)
  \/ \E c \in ConnIds : ConnectSnapshotSettled(c)
  \/ \E d \in DiscIds : DisconnectStart(d)
  \/ \E d \in DiscIds : DisconnectSettled(d)
  \/ cancelPairing
  \/ \E t \in Topics : SessionDelete(t)
  \/ \E t \in Topics : SessionEvent(t)
  \/ \E t \in Topics : SessionUpdate(t)

SessionInit == SessionInitWith(MaxPreexisting)

\* The hook after its first render, under any build-time environment.
HookInit == SessionInit /\ VaultInit /\ MetaInit /\ SeedInit /\ IdentityInit

\* The hook of a build without NEXT_PUBLIC_QUBIC_SNAP_ID.
Init == HookInit /\ QUBIC_SNAP_ID = DEFAULT_QUBIC_SNAP_ID

SpecSession == Init /\ [][SessionNext]_vars

\* The session pipeline with the unmount of the component.
MountNext == SessionNext \/ Teardown
SpecMount == Init /\ [][MountNext]_vars

\* The vault card alone (file selections, the password field, unlocks,
\* reset), in a browser whose client store holds no session.
VaultCardInit == Init /\ wcIssued = 0 /\ WALLETCONNECT_PROJECT_ID = ""

SpecVault == VaultCardInit /\ [][VaultNext]_vars

\* The seed card alone.
SeedCardInit == Init /\ wcIssued = 0 /\ WALLETCONNECT_PROJECT_ID = ""

SpecSeed == SeedCardInit /\ [][SeedNext]_vars

\* The seed card with two submissions in flight.
SpecSeedRace == SeedCardInit /\ [][SeedRaceNext]_vars

\* The snapshot cache under calls of fetchIdentitySnapshot.
SpecSnapshot == SeedCardInit /\ [][FetchNext]_vars

\* The bridge card alone, with the official or a forked snap id configured.
BridgeCardInit ==
  /\ HookInit
  /\ wcIssued = 0
  /\ WALLETCONNECT_PROJECT_ID = ""
  /\ QUBIC_SNAP_ID \in SnapIds

SpecBridge == BridgeCardInit /\ [][MetaNext]_vars

\* The start-up of the page in a browser whose store may hold a session of
\* every topic: the client init effect and the wallet's events, without
\* calls of the card's buttons.
ResumeInit ==
  /\ SessionInitWith(MaxTopics)
  /\ VaultInit /\ MetaInit /\ SeedInit /\ IdentityInit
  /\ QUBIC_SNAP_ID = DEFAULT_QUBIC_SNAP_ID

ResumeNext ==
  \/ ClientInitSettles
  \/ EffectClientSettled
  \/ EffectSnapshotSettled
  \/ \E t \in Topics : SessionDelete(t)
  \/ \E t \in Topics : SessionEvent(t)
  \/ \E t \in Topics : SessionUpdate(t)

SpecResume == ResumeInit /\ [][ResumeNext]_vars

\* The four cards of one page together (part_000:1464-1514), each with one
\* call of its handlers at a time: the session card against a native wallet,
\* the bridge card, the seed card with a raw key and a mnemonic, and the
\* vault card with an unreadable file.
DashboardSeedInputs ==
  { SeedText(FALSE, << Str("0xhex", 66, "key0") >>),
    SeedText(TRUE, Repeat(Str("lower", 7, "abandon"), 12)) }

DashboardInit == Init /\ wcIssued = 0 /\ WALLETCONNECT_PROJECT_ID = "project-id"

DashboardNext ==
  \/ ConnectStart(1, TRUE)
  \/ ConnectNativeSettled(1)
  \/ DisconnectStart(1)
  \/ \E provider \in BOOLEAN : connectMetaMask(1, provider)
  \/ \E result \in {"installed", "unavailable", "rejected"} :
       MetaInstallSettled(1, result)
  \/ \E reply \in {"exact", "local", "missing", "rejected"} :
       MetaSnapsSettled(1, reply)
  \/ \E reply \in SnapAccountReplies : MetaAccountsSettled(1, reply)
  \/ \E ok \in BOOLEAN, publicId \in {"", "SNAP_ID"} :
       MetaPublicIdSettled(1, ok, publicId)
  \/ \E seedInput \in DashboardSeedInputs : handleSeedSubmit(1, seedInput)
  \/ \E ok \in BOOLEAN : SeedDerived(1, ok)
  \/ \E balance \in BalanceReplies, ownedAssets \in AssetReplies :
       SeedSnapshotSettled(1, balance, ownedAssets)
  \/ \E ok \in BOOLEAN : SeedHashed(1, ok)
  \/ handleFileSelection(1, FileNamed("broken.json"))
  \/ \E readable \in BOOLEAN : FilePrepared(1, readable)
  \/ resetVault

SpecDashboard == DashboardInit /\ [][DashboardNext]_vars

(***************************************************************************)
(* Properties                                                              *)
(***************************************************************************)
\* C1: every connect call made while a remote-transport session was active
\* has had client.disconnect invoked for that session by the time the call
\* creates its new session (its native request or its approval settles and
\* leaves a new session value), whichever transport the call uses.
C1_ConnectDisconnectsPrevious ==
  [][\A c \in ConnIds :
       LET ConnectCreates ==
             /\ connectCalls[c].pc \in {"native", "approval"}
             /\ connectCalls'[c].pc \in {"snapshot", "done"}
             /\ qubicSession' # NULL
             /\ qubicSession' # qubicSession
       IN (ConnectCreates /\ connectCalls[c].prev # "")
            => connectCalls[c].prev \in wcDisconnectCalls']_vars

\* C2: while a session is active, a session_event or session_update whose
\* topic is not the topic of that session leaves the session and the status
\* unchanged.
C2_MismatchedTopicIgnored ==
  [][\A t \in Topics :
       ((SessionEvent(t) \/ SessionUpdate(t))
          /\ qubicSession # NULL /\ qubicSession.topic # t)
         => (qubicSession' = qubicSession /\ qubicStatus' = qubicStatus)]_vars

\* C3: an approval that arrives after cancelPairing ran during the approval
\* wait neither creates nor replaces the session nor changes the status to
\* connected.
C3_LateApprovalIgnored ==
  [][\A c \in ConnIds :
       (connectCalls[c].pc = "approval" /\ connectCalls[c].cancelled
          /\ connectCalls'[c].pc = "snapshot")
         => (qubicSession' = qubicSession /\ qubicStatus' = qubicStatus)]_vars

\* C4: once the component is torn down no protocol event handler is
\* registered on the client.
C4_NoListenerAfterTeardown ==
  ~isMounted => wcListeners = {}

\* C10: a disconnect call made while no session exists changes neither
\* status, message, session nor pairing URI, reaches the protocol client
\* neither through getQubicSignClient nor through client.disconnect, and
\* returns.
C10_DisconnectWithoutSessionNoOp ==
  [][\A d \in DiscIds :
       (DisconnectStart(d) /\ qubicSession = NULL)
         => /\ UNCHANGED << qubicStatus, qubicMessage, qubicSession,
                            walletConnectUri, clientCache, wcSessions,
                            wcDisconnectCalls >>
            /\ disconnectCalls'[d] = DiscDone]_vars

\* C10 witness: a disconnect call has returned although nothing ever wrote
\* the status message, so it ran without a session.
C10_Witness ==
  /\ \E d \in DiscIds : disconnectCalls[d] = DiscDone
  /\ qubicSession = NULL
  /\ qubicMessage = ""

\* C5: the step in which a selection has read and extracted a file whose
\* JSON is an object with the keys cipher, iv and salt leaves the vault
\* awaiting the password with that file's upload staged and the selection
\* over; no step puts a selection of such a file into plaintext derivation.
C5_EncryptedVaultAwaitsPassword ==
  [][\A f \in FileIds :
       LET Container(name) ==
             LET text == extractVaultText(FileNamed(name))
             IN /\ text # NULL
                /\ text.json # NULL
                /\ text.json.type = "object"
                /\ \A key \in {"cipher", "iv", "salt"} :
                     \E i \in 1..Len(text.json.fields) :
                       text.json.fields[i].key = key
       IN /\ (fileCalls[f].pc = "prepare" /\ FilePrepared(f, TRUE)
                /\ Container(fileCalls[f].file))
            => /\ vaultState' = VState("idle", "encrypted_detected")
               /\ vaultUpload' # NULL
               /\ vaultUpload'.name = fileCalls[f].file
               /\ vaultUpload'.buffer =
                    textToArrayBuffer(extractVaultText(FileNamed(fileCalls[f].file)))
               /\ fileCalls'[f] = FileIdle
          /\ fileCalls'[f].pc = "derive" => ~Container(fileCalls'[f].file)]_vars

\* C5 witness: an encrypted container that came out of a zip archive is
\* staged and the vault asks for its password.
C5_Witness ==
  /\ vaultState = VState("idle", "encrypted_detected")
  /\ vaultUpload # NULL
  /\ vaultUpload.name = "vault.zip"

\* C6: a staged upload, when there is one, holds an encrypted container, and
\* none is staged while a selection derives a plaintext vault.
C6_UploadOnlyForEncryptedVault ==
  vaultUpload # NULL =>
    /\ isEncryptedVaultText(TextDecode(vaultUpload.buffer))
    /\ \A f \in FileIds : fileCalls[f].pc # "derive"

\* C7: the checksum recorded for a file is the checksum of its normalized
\* (extracted) text, so a zip-wrapped file and the raw file of the same text
\* get the same one.
C7_ChecksumOfNormalizedText ==
  vaultUpload # NULL => vaultUpload.checksum = Checksum(vaultUpload.buffer)

\* C8 as stated: a failed unlock leaves the vault in error with the upload
\* kept, and a staged encrypted upload changes only in a successful unlock
\* or a reset.
C8_UploadKeptUntilUnlockOrReset ==
  [][/\ (\E u \in UnlockIds : UnlockImported(u, FALSE))
          => (vaultState'.state = "error" /\ vaultUpload' = vaultUpload)
     /\ (/\ vaultUpload # NULL
         /\ isEncryptedVaultText(TextDecode(vaultUpload.buffer))
         /\ vaultUpload' # vaultUpload)
          => \/ \E u \in UnlockIds, outcome \in AllOutcomes :
                  UnlockDerived(u, outcome) /\ vaultState'.state = "ready"
             \/ resetVault]_vars

\* C8 amended: a failed unlock leaves the vault in error with the upload
\* kept, and a staged encrypted upload changes only in a successful unlock,
\* a reset, or a step of a file selection (staging, failing or finishing).
C8_UploadKeptUntilUnlockResetOrSelection ==
  [][/\ (\E u \in UnlockIds : UnlockImported(u, FALSE))
          => (vaultState'.state = "error" /\ vaultUpload' = vaultUpload)
     /\ (/\ vaultUpload # NULL
         /\ isEncryptedVaultText(TextDecode(vaultUpload.buffer))
         /\ vaultUpload' # vaultUpload)
          => \/ \E u \in UnlockIds, outcome \in AllOutcomes :
                  UnlockDerived(u, outcome) /\ vaultState'.state = "ready"
             \/ resetVault
             \/ \E f \in FileIds, readable \in BOOLEAN : FilePrepared(f, readable)
             \/ \E f \in FileIds, outcome \in AllOutcomes :
                  FileParsed(f, outcome)]_vars

\* C8 witness: an unlock has failed and the upload is still staged.
C8_Witness ==
  /\ vaultState = VState("error", "unlock_failed")
  /\ vaultUpload # NULL

\* C9: when the derivations of a vault's entries (plaintext) or seeds
\* (encrypted) have settled, the import fails exactly when no entry yielded
\* an account, and otherwise the vault is ready with exactly the accounts of
\* the entries that yielded one, in entry order.
C9_PartialDerivationKeepsSucceeded ==
  [][LET Kth(S, k) == CHOOSE i \in S : Cardinality({j \in S : j < i}) = k - 1
         Exactly(S, account(_)) ==
           IF S = {} THEN vaultState'.state = "error"
           ELSE /\ vaultState'.state = "ready"
                /\ Len(vaultState'.accounts) = Cardinality(S)
                /\ \A k \in 1..Cardinality(S) :
                     vaultState'.accounts[k] = account(Kth(S, k))
     IN /\ \A f \in FileIds :
             fileCalls[f].pc = "derive" =>
               LET entries == Prepared[fileCalls[f].file].entries
               IN \A outcome \in Outcomes(Len(entries)) :
                    FileParsed(f, outcome)
                      => Exactly({i \in 1..Len(entries) :
                                    outcome[i] /\ EntryPlan(entries[i]) # "none"},
                                 LAMBDA i : deriveVaultAccount(entries[i]))
        /\ \A u \in UnlockIds :
             unlockCalls[u].pc = "derive" =>
               LET seeds ==
                     SpendableSeeds(TextDecode(unlockCalls[u].upload.buffer))
               IN \A outcome \in Outcomes(Len(seeds)) :
                    UnlockDerived(u, outcome)
                      => Exactly({i \in 1..Len(seeds) : outcome[i]},
                                 LAMBDA i : UnlockedAccount(seeds[i]))]_vars

\* C9 witness: plain.json, whose entries can yield two accounts, was
\* imported with one, so an entry's derivation failed.
C9_Witness ==
  /\ vaultState.state = "ready"
  /\ vaultState.fileName = "plain.json"
  /\ Len(vaultState.accounts) = 1

\* C11: a disconnect call made while a session exists, of either transport,
\* ends with no session and status idle, whether client.disconnect
\* succeeded, failed, or no client could be obtained.
C11_DisconnectEndsIdle ==
  [][\A d \in DiscIds :
       (/\ disconnectCalls[d] # DiscDone
        /\ disconnectCalls'[d] = DiscDone
        /\ ~(disconnectCalls[d].pc = "idle" /\ qubicSession = NULL))
         => (qubicSession' = NULL /\ qubicStatus' = "idle")]_vars

\* C11 witness: a disconnect call has ended idle without a session although
\* its client.disconnect failed (the protocol client still stores the
\* session).
C11_Witness ==
  /\ \E d \in DiscIds : disconnectCalls[d] = DiscDone
  /\ \A c \in ConnIds : connectCalls[c] = ConnIdle
  /\ cancelCalls = 0
  /\ \E t \in wcDisconnectCalls : wcSessions[t] # NULL
  /\ qubicSession = NULL
  /\ qubicStatus = "idle"
  /\ qubicMessage = "ended"

\* C12: cancelPairing clears the pairing URI and leaves the session value
\* unchanged; the status becomes connected if a session exists at that
\* moment and idle otherwise.
C12_CancelKeepsSession ==
  [][cancelPairing
       => /\ walletConnectUri' = ""
          /\ qubicSession' = qubicSession
          /\ qubicStatus' = IF qubicSession # NULL THEN "connected" ELSE "idle"]_vars

\* C12 witness: pairing was cancelled while a session existed, which is the
\* only way to be connected under the message of an ended request.
C12_Witness ==
  /\ cancelCalls > 0
  /\ qubicSession # NULL
  /\ qubicStatus = "connected"
  /\ qubicMessage = "ended"
  /\ walletConnectUri = ""

\* C16: while NEXT_PUBLIC_WALLETCONNECT_PROJECT_ID is missing, the Qubic card
\* (of a page without a native wallet) shows the warning that asks for the
\* project id, and the WalletConnect client is not initialized: nobody has
\* asked getQubicSignClient for it and no call reached it.
C16_NoClientWithoutProjectId ==
  WALLETCONNECT_PROJECT_ID = ""
    => /\ walletConnectWarning(FALSE) = "set_project_id"
       /\ clientCache = "none"
       /\ ~signClientRef
       /\ wcDisconnectCalls = {}

\* C13 (as stated): on every submitted input, classifySeed returns a
\* mnemonic descriptor with the exact word count for 12 to 24
\* whitespace-separated words, a hex-key descriptor for 64 hex digits with
\* or without a 0x prefix, and Invalid for every other input.
C13_ClassifyAcceptsPrefixedHex ==
  [][\A s \in SeedIds, seedInput \in SeedInputs :
       handleSeedSubmit(s, seedInput)
         => LET words == seedInput.words
                bare == /\ words # <<>>
                        /\ \A i \in 1..Len(words) :
                             words[i].cls \in {"hex", "hexletters", "HEXLETTERS"}
                        /\ TotalLen(words) = 64
                prefixed == /\ Len(words) = 1
                            /\ words[1].cls = "0xhex"
                            /\ words[1].len = 66
            IN classifySeed(seedInput) =
                 IF Len(words) \in 12..24
                 THEN Classification(TRUE, Descriptor("mnemonic", Len(words)))
                 ELSE IF bare \/ prefixed
                 THEN Classification(TRUE, Descriptor("hex", 64))
                 ELSE Classification(FALSE, NoDescriptor)]_vars

\* C13 (amended): on every submitted input, classifySeed returns a mnemonic
\* descriptor with the exact word count for 12 to 24 whitespace-separated
\* words, a hex-key descriptor for any other input that is exactly 64 hex
\* digits once its whitespace is removed (no 0x prefix), and Invalid for
\* every other input, a 0x-prefixed key included.
C13_ClassifyBareHexOnly ==
  [][\A s \in SeedIds, seedInput \in SeedInputs :
       handleSeedSubmit(s, seedInput)
         => LET words == seedInput.words
                bare == /\ words # <<>>
                        /\ \A i \in 1..Len(words) :
                             words[i].cls \in {"hex", "hexletters", "HEXLETTERS"}
                        /\ TotalLen(words) = 64
            IN classifySeed(seedInput) =
                 IF Len(words) \in 12..24
                 THEN Classification(TRUE, Descriptor("mnemonic", Len(words)))
                 ELSE IF bare
                 THEN Classification(TRUE, Descriptor("hex", 64))
                 ELSE Classification(FALSE, NoDescriptor)]_vars

\* C13 witness: a submission of 24 words, the upper end of the mnemonic
\* range, has been classified and imported as a 24-word mnemonic.
C13_Witness ==
  /\ seedState.state = "ready"
  /\ seedState.descriptor = Descriptor("mnemonic", 24)

\* C14: a submitted input that matches the seed pattern (after lower-casing)
\* or the hex-private-key pattern enters the identity derivation and never
\* the generic hashing path; a call of the identity path that ends ready
\* carries the identity descriptor, the seed one whenever the lower-cased
\* input is a seed, and the identity derived from that secret.
C14_IdentityPathPrecedence ==
  [][/\ \A s \in SeedIds, seedInput \in SeedInputs :
          (/\ handleSeedSubmit(s, seedInput)
           /\ Len(seedInput.words) = 1
           /\ \/ /\ seedInput.words[1].cls \in
                      {"lower", "hexletters", "upper", "HEXLETTERS"}
                 /\ seedInput.words[1].len >= 55
              \/ /\ seedInput.words[1].cls \in {"hex", "hexletters", "HEXLETTERS"}
                 /\ seedInput.words[1].len = 64
              \/ /\ seedInput.words[1].cls = "0xhex"
                 /\ seedInput.words[1].len = 66)
            => /\ seedCalls'[s].pc = "derive"
               /\ seedState' = SState("processing", "deriving_identity")
     /\ \A s \in SeedIds :
          (/\ seedCalls[s].pc \in {"derive", "snapshot"}
           /\ seedCalls'[s] = SeedIdle
           /\ seedState'.state = "ready")
            => LET word == seedCalls[s].normalized.words[1]
                   asSeed == word.cls \in {"lower", "hexletters", "upper", "HEXLETTERS"}
                   lowered == IF word.cls \in {"upper", "HEXLETTERS"}
                              THEN "lc:" \o word.id ELSE word.id
               IN /\ seedState'.descriptor =
                       IF asSeed THEN Descriptor("qubic_seed", 0)
                       ELSE Descriptor("raw_private_key", 0)
                  /\ seedState'.identity # NULL
                  /\ seedState'.identity.publicId =
                       "ID:" \o (IF asSeed THEN lowered ELSE word.id)]_vars

\* C14 witness: 64 letters A-F, which classifySeed accepts as a hex key and
\* the hex-private-key pattern matches, have been derived as a seed.
C14_Witness ==
  /\ classifySeed(SeedText(TRUE, << Str("HEXLETTERS", 64, "AMB") >>)).valid
  /\ seedState.state = "ready"
  /\ seedState.descriptor = Descriptor("qubic_seed", 0)
  /\ seedState.identity # NULL
  /\ seedState.identity.publicId = "ID:lc:AMB"

\* C15 (as stated): a submission accepted only by the generic classifier (12
\* to 24 words, or 64 hex digits split by whitespace) is hashed and ends ready with the classifier's descriptor, a content-hash
\* fingerprint and no identity; it never enters the identity derivation or
\* the snapshot lookup and leaves the snapshot cache alone.
C15_GenericPathEndsReady ==
  [][\A s \in SeedIds :
       /\ \A seedInput \in SeedInputs :
            (/\ handleSeedSubmit(s, seedInput)
             /\ \/ Len(seedInput.words) \in 12..24
                \/ /\ Len(seedInput.words) > 1
                   /\ \A i \in 1..Len(seedInput.words) :
                        seedInput.words[i].cls = "hex"
                   /\ TotalLen(seedInput.words) = 64)
              => seedCalls'[s].pc = "hash"
       /\ seedCalls[s].pc = "hash"
            => /\ seedCalls'[s].pc \in {"hash", "idle"}
               /\ seedCalls'[s] # seedCalls[s]
                    => /\ identitySnapshotCache' = identitySnapshotCache
                       /\ seedState'.state = "ready"
                       /\ seedState'.descriptor =
                            IF Len(seedCalls[s].normalized.words) \in 12..24
                            THEN Descriptor("mnemonic",
                                            Len(seedCalls[s].normalized.words))
                            ELSE Descriptor("hex", 64)
                       /\ Len(seedState'.fingerprint.hex) = FingerprintHexLen
                       /\ seedState'.fingerprint.tail = ""
                       /\ seedState'.identity = NULL]_vars

\* C15 (amended): a submission accepted only by the generic classifier (12
\* to 24 words, or 64 hex digits split by whitespace) is hashed and ends either ready with the classifier's descriptor, a
\* content-hash fingerprint and no identity, or, when the digest cannot be
\* computed, invalid with the hashing error; it never enters the identity
\* derivation or the snapshot lookup and leaves the snapshot cache alone.
C15_GenericPathHashesOnly ==
  [][\A s \in SeedIds :
       /\ \A seedInput \in SeedInputs :
            (/\ handleSeedSubmit(s, seedInput)
             /\ \/ Len(seedInput.words) \in 12..24
                \/ /\ Len(seedInput.words) > 1
                   /\ \A i \in 1..Len(seedInput.words) :
                        seedInput.words[i].cls = "hex"
                   /\ TotalLen(seedInput.words) = 64)
              => seedCalls'[s].pc = "hash"
       /\ seedCalls[s].pc = "hash"
            => /\ seedCalls'[s].pc \in {"hash", "idle"}
               /\ seedCalls'[s] # seedCalls[s]
                    => /\ identitySnapshotCache' = identitySnapshotCache
                       /\ \/ seedState' = SState("invalid", "hash_failed")
                          \/ /\ seedState'.state = "ready"
                             /\ seedState'.descriptor =
                                  IF Len(seedCalls[s].normalized.words) \in 12..24
                                  THEN Descriptor("mnemonic",
                                         Len(seedCalls[s].normalized.words))
                                  ELSE Descriptor("hex", 64)
                             /\ Len(seedState'.fingerprint.hex) = FingerprintHexLen
                             /\ seedState'.fingerprint.tail = ""
                             /\ seedState'.identity = NULL]_vars

\* C15 witness: twelve repeated words have been imported: ready as a 12-word
\* mnemonic with a digest fingerprint and no identity, with no snapshot ever
\* cached.
C15_Witness ==
  /\ seedState.state = "ready"
  /\ seedState.descriptor = Descriptor("mnemonic", 12)
  /\ seedState.fingerprint.hex # <<>>
  /\ seedState.identity = NULL
  /\ \A id \in PublicIds : identitySnapshotCache[id] = NULL
  /\ \A s \in SeedIds : seedCalls[s] = SeedIdle

\* C17: fetchIdentitySnapshot never fails: whatever its two lookups settle
\* to, the call returns; the field of a rejected lookup is undefined and the
\* other field keeps the result of its lookup; the snapshot returned is the
\* one stored in the cache.
C17_SnapshotNeverFails ==
  [][/\ \A k \in FetchIds :
          (fetchCalls[k].pc = "lookups" /\ fetchCalls'[k] # fetchCalls[k])
            => /\ fetchCalls'[k].pc = "returned"
               /\ identitySnapshotCache'[fetchCalls[k].publicId] =
                    fetchCalls'[k].result
     /\ \A k \in FetchIds, balance \in BalanceReplies, ownedAssets \in AssetReplies :
          FetchSettled(k, balance, ownedAssets)
            => /\ fetchCalls'[k].result.balance =
                    IF balance.ok THEN balance.response.balance ELSE UNDEFINED
               /\ fetchCalls'[k].result.ownedAssets =
                    IF ownedAssets.ok THEN ownedAssets.response.ownedAssets
                    ELSE UNDEFINED]_vars

\* C17 witness: a call whose balance lookup was rejected has returned a
\* snapshot with an unknown balance and the owned assets found, and the
\* cache holds that snapshot.
C17_Witness ==
  \E k \in FetchIds :
    /\ fetchCalls[k].pc = "returned"
    /\ fetchCalls[k].result.balance = UNDEFINED
    /\ fetchCalls[k].result.ownedAssets # UNDEFINED
    /\ identitySnapshotCache[fetchCalls[k].publicId] = fetchCalls[k].result

\* C18: a cache entry is never removed; a call made while the entry exists
\* returns it without any lookup, also when it records unknown fields; an
\* existing entry changes only when a call that was already awaiting its
\* lookups settles, and then holds that call's snapshot.
C18_CacheEntriesStay ==
  [][/\ \A id \in PublicIds :
          identitySnapshotCache[id] # NULL
            => /\ identitySnapshotCache'[id] # NULL
               /\ identitySnapshotCache'[id] # identitySnapshotCache[id]
                    => \E k \in FetchIds :
                         /\ fetchCalls[k] = FetchCall("lookups", id, NULL)
                         /\ fetchCalls'[k] =
                              FetchCall("returned", id, identitySnapshotCache'[id])
     /\ \A k \in FetchIds, id \in PublicIds :
          (fetchIdentitySnapshot(k, id) /\ identitySnapshotCache[id] # NULL)
            => fetchCalls'[k] = FetchCall("hit", id, identitySnapshotCache[id])]_vars

\* C18 witness: an entry that records two unknown fields has been served
\* from the cache, and an entry served from the cache earlier has since
\* been overwritten by a call that was awaiting its lookups.
C18_Witness ==
  /\ \E k \in FetchIds :
       /\ fetchCalls[k].pc = "hit"
       /\ fetchCalls[k].result = IdentitySnapshot(UNDEFINED, UNDEFINED)
  /\ \E k \in FetchIds :
       /\ fetchCalls[k].pc = "hit"
       /\ identitySnapshotCache[fetchCalls[k].publicId] # fetchCalls[k].result

\* C19: in every state the status list has exactly four descriptors, in the
\* order session, bridge, seed import, vault import; the session and bridge
\* descriptors carry that pipeline's status and message, and the seed and
\* vault descriptors carry the pipeline's message and the connection state
\* that its state maps to: ready to connected, processing to connecting,
\* invalid (seed) or error (vault) to error, idle to idle.
C19_StatusListProjection ==
  /\ Len(statusDescriptors) = 4
  /\ << statusDescriptors[1].label, statusDescriptors[2].label,
        statusDescriptors[3].label, statusDescriptors[4].label >> =
       << "Qubic Wallet", "MetaMask", "Seed Import", "Vault File" >>
  /\ statusDescriptors[1].state = qubicStatus
  /\ statusDescriptors[1].description = qubicMessage
  /\ statusDescriptors[2].state = metaStatus
  /\ statusDescriptors[2].description = metaMessage
  /\ << seedState.state, statusDescriptors[3].state >> \in
       { <<"ready", "connected">>, <<"processing", "connecting">>,
         <<"invalid", "error">>, <<"idle", "idle">> }
  /\ statusDescriptors[3].description = seedState.message
  /\ << vaultState.state, statusDescriptors[4].state >> \in
       { <<"ready", "connected">>, <<"processing", "connecting">>,
         <<"error", "error">>, <<"idle", "idle">> }
  /\ statusDescriptors[4].description = vaultState.message

\* C19 witness: the four descriptors show four different things at once: a
\* connected session, a bridge that failed, an invalid seed and a vault file
\* being processed.
C19_Witness ==
  /\ qubicStatus = "connected"
  /\ metaStatus = "error"
  /\ seedState.state = "invalid"
  /\ vaultState.state = "processing"
  /\ statusDescriptors[3].state = "error"
  /\ statusDescriptors[4].state = "connecting"

\* C20: no step changes the state of more than one pipeline: a step that
\* changes the session pipeline's state (its calls in flight included)
\* leaves the bridge, seed and vault pipelines as they were, and likewise
\* for each of the other three, whatever the other pipelines have in flight.
C20_PipelinesDisjoint ==
  [][/\ sessionVars' # sessionVars
          => UNCHANGED << metaVars, seedVars, vaultVars >>
     /\ metaVars' # metaVars
          => UNCHANGED << sessionVars, seedVars, vaultVars >>
     /\ seedVars' # seedVars
          => UNCHANGED << sessionVars, metaVars, vaultVars >>
     /\ vaultVars' # vaultVars
          => UNCHANGED << sessionVars, metaVars, seedVars >>]_vars

\* C20 witness: all four pipelines have an asynchronous operation in flight
\* at once, the vault card's started after a reset.
C20_Witness ==
  /\ connectCalls[1].pc = "native"
  /\ metaCalls[1].pc # "idle"
  /\ seedCalls[1].pc # "idle"
  /\ fileCalls[1].pc # "idle"
  /\ qubicStatus = "connecting"
  /\ metaStatus = "connecting"
  /\ seedState.state = "processing"
  /\ vaultState.state = "idle"

\* C21: when wallet_requestSnaps for the configured snap id fails because
\* the snap cannot be resolved and the configured id is not the official
\* one, the call shows the fallback warning and goes on to install the
\* official snap, with which it then continues; when the configured id is
\* the official one, when the failure is of another kind, or when the
\* official snap's own installation fails, the call ends with the bridge in
\* error and no accounts.
C21_SnapFallback ==
  [][\A m \in MetaIds, result \in {"installed", "unavailable", "rejected"} :
       MetaInstallSettled(m, result)
         => IF result = "installed"
            THEN metaCalls'[m] = MetaCall("getSnaps", metaCalls[m].snapId)
            ELSE IF /\ result = "unavailable"
                    /\ metaCalls[m].pc = "install"
                    /\ QUBIC_SNAP_ID # DEFAULT_QUBIC_SNAP_ID
            THEN /\ metaMessage' = "fallback"
                 /\ metaCalls'[m] =
                      MetaCall("installDefault", DEFAULT_QUBIC_SNAP_ID)
                 /\ metaStatus' = metaStatus
                 /\ snapAccounts' = snapAccounts
            ELSE /\ metaStatus' = "error"
                 /\ metaMessage' = "error"
                 /\ snapAccounts' = <<>>
                 /\ metaCalls'[m] = MetaIdle]_vars

\* C21 witness: with a forked snap id configured, a call has fallen back,
\* installed the official snap and is asking for the installed snaps under
\* the official id, the warning still showing.
C21_Witness ==
  /\ QUBIC_SNAP_ID # DEFAULT_QUBIC_SNAP_ID
  /\ metaStatus = "connecting"
  /\ metaMessage = "fallback"
  /\ \E m \in MetaIds : metaCalls[m] = MetaCall("getSnaps", DEFAULT_QUBIC_SNAP_ID)

(***************************************************************************)
(* C22-C30: the remote and native connect paths                            *)
(***************************************************************************)
\* C22: once no connect call is in flight any more (each has passed its
\* provider request, its approval and its snapshot), the status is no longer
\* connecting: the call ended connected or in error.
C22_SettledConnectLeavesConnecting ==
  (\A c \in ConnIds : connectCalls[c].pc \in {"idle", "done"})
    => qubicStatus # "connecting"

\* C23: a remote session shown as connected has not been disconnected by
\* this app: no connect call has had client.disconnect of its topic
\* acknowledged (the call is past line 1042 with that topic) while the card
\* shows it connected again.
C23_ConnectedSessionNotDisconnected ==
  (qubicStatus = "connected" /\ qubicSession # NULL
     /\ qubicSession.transport = "walletconnect")
    => \A c \in ConnIds :
         ~(connectCalls[c].pc \in {"pairing", "approval"}
             /\ connectCalls[c].topic = qubicSession.topic)

\* C24: a session_delete for the topic of the active remote session clears
\* the session and sets the status to idle; a session_delete for any other
\* topic, or one arriving while the active session is native or absent,
\* leaves session and status unchanged.
C24_SessionDeleteClearsActive ==
  [][\A t \in Topics :
       SessionDelete(t) =>
         IF qubicSession # NULL /\ qubicSession.topic = t
              /\ qubicSession.transport = "walletconnect"
         THEN qubicSession' = NULL /\ qubicStatus' = "idle"
         ELSE qubicSession' = qubicSession /\ qubicStatus' = qubicStatus]_vars

\* C25: a session_event (accountsChanged, amountChanged, assetAmountChanged
\* or any other name) changes at most the accounts array of the session:
\* topic, address, chainId, expiry, transport and the status stay, and no
\* session is created when there is none.
C25_EventReplacesOnlyAccounts ==
  [][\A t \in Topics :
       SessionEvent(t) =>
         /\ qubicStatus' = qubicStatus
         /\ IF qubicSession = NULL
            THEN qubicSession' = NULL
            ELSE /\ qubicSession' # NULL
                 /\ qubicSession' =
                      [qubicSession EXCEPT !.accounts = qubicSession'.accounts]]_vars

\* A connect call still awaits its snapshot, and an event of the approved
\* topic has already put the wallet's account list into the session.
C25_Witness ==
  \E c \in ConnIds :
    /\ connectCalls[c].pc = "snapshot"
    /\ qubicSession # NULL
    /\ qubicSession.topic = connectCalls[c].topic
    /\ qubicSession.transport = "walletconnect"
    /\ qubicSession.expiry = 1700000
    /\ qubicSession.accounts = << WalletAddress(connectCalls[c].topic) >>
    /\ qubicMessage = "wallet_reported"
    /\ qubicStatus = "connected"

\* C26: the accounts array belongs to the session's current topic: when an
\* approval replaces the session by one of a different topic or transport,
\* no account of the previous session is carried over into the new one.
C26_NoAccountsCarriedOver ==
  [][\A c \in ConnIds :
       (ConnectApprovalSettled(c) /\ qubicSession # NULL /\ qubicSession' # NULL
          /\ qubicSession'.topic # qubicSession.topic)
         => \A i \in DOMAIN qubicSession'.accounts :
              \A j \in DOMAIN qubicSession.accounts :
                qubicSession'.accounts[i] # qubicSession.accounts[j]]_vars

\* C27: when a pairing is approved the pairing URI is cleared, and for a
\* returned session whose first qubic account has the shape
\* namespace:chain:address the hook's session takes its topic from that
\* session, its address and chainId from the account string, its expiry as
\* exactly 1000 times the protocol expiry in seconds and the remote
\* transport, and the status becomes connected.
C27_ApprovalHydratesSession ==
  [][\A c \in ConnIds :
       (ConnectApprovalSettled(c) /\ wcIssued' = wcIssued + 1) =>
         LET session == wcSessions'[TopicOrder[wcIssued + 1]]
         IN /\ walletConnectUri' = ""
            /\ (session.ns /\ Len(session.accounts) > 0
                  /\ Len(session.accounts[1]) = 3)
                 => /\ qubicSession' # NULL
                    /\ qubicSession'.topic = session.topic
                    /\ qubicSession'.address = session.accounts[1][3]
                    /\ qubicSession'.chainId = session.accounts[1][2]
                    /\ qubicSession'.expiry = session.expiry * 1000
                    /\ qubicSession'.transport = "walletconnect"
                    /\ qubicStatus' = "connected"]_vars

\* A pairing whose QR code was shown has just been approved: the call is at
\* its snapshot and the session is the approved one.
C27_Witness ==
  \E c \in ConnIds :
    /\ connectCalls[c].pc = "snapshot"
    /\ wcSessions[connectCalls[c].topic] # NULL
    /\ wcSessions[connectCalls[c].topic].expiry = 1700
    /\ qubicSession # NULL
    /\ qubicSession.topic = connectCalls[c].topic
    /\ qubicSession.address = "ADDR_" \o connectCalls[c].topic
    /\ qubicSession.chainId = "mainnet"
    /\ qubicSession.expiry = 1700000
    /\ qubicSession.transport = "walletconnect"
    /\ walletConnectUri = ""
    /\ qubicStatus = "connected"
    /\ qubicMessage = "linked"

\* C28: when the accounts-snapshot request issued after an approval or an
\* auto-resume settles, whatever its outcome (failure and an empty list
\* included), the status is left as it was (connected stays connected, no
\* error is entered) and the session keeps its topic, address, expiry and
\* transport; a failure or an empty list leaves the whole session as it was.
C28_SnapshotFailureKeepsSession ==
  [][(EffectSnapshotSettled \/ \E c \in ConnIds : ConnectSnapshotSettled(c)) =>
       /\ qubicStatus' = qubicStatus
       /\ walletConnectUri' = walletConnectUri
       /\ IF qubicSession = NULL
          THEN qubicSession' = NULL
          ELSE /\ qubicSession' # NULL
               /\ qubicSession' =
                    [qubicSession EXCEPT !.accounts = qubicSession'.accounts]
               /\ qubicSession'.accounts # qubicSession.accounts
                    => qubicMessage' = "linked"]_vars

\* The auto-resumed session after its snapshot request has settled without
\* accounts: still connected, still without an accounts list.
C28_Witness ==
  /\ effectPc = "done"
  /\ effectTopic # ""
  /\ qubicSession # NULL
  /\ qubicSession.topic = effectTopic
  /\ qubicSession.accounts = <<>>
  /\ qubicStatus = "connected"
  /\ qubicMessage = "linked"
  /\ \A c \in ConnIds : connectCalls[c] = ConnIdle

\* C29: with a native provider present, connect uses only that provider: the
\* call neither asks for the protocol client nor disconnects or pairs through
\* it.  When the provider's request settles, either the session is the
\* native one (the returned address, transport native, the sentinel topic)
\* and the status is connected, or the status is error with the provider's
\* message and the session is left as it was.
C29_NativeConnectOnlyUsesProvider ==
  [][\A c \in ConnIds :
       /\ ConnectStart(c, TRUE) =>
            /\ connectCalls'[c].pc = "native"
            /\ qubicStatus' = "connecting"
            /\ qubicSession' = qubicSession
            /\ clientCache' = clientCache
            /\ wcDisconnectCalls' = wcDisconnectCalls
       /\ ConnectNativeSettled(c) =>
            /\ connectCalls'[c].pc = "done"
            /\ clientCache' = clientCache
            /\ wcDisconnectCalls' = wcDisconnectCalls
            /\ wcSessions' = wcSessions
            /\ wcIssued' = wcIssued
            /\ \/ /\ qubicSession' # NULL
                  /\ qubicSession'.topic = NATIVE_TOPIC
                  /\ qubicSession'.transport = "native"
                  /\ qubicSession'.address = "NATIVEADDR"
                  /\ qubicStatus' = "connected"
               \/ /\ qubicStatus' = "error"
                  /\ qubicMessage' = "error"
                  /\ qubicSession' = qubicSession]_vars

\* A native connect has succeeded in a browser whose protocol client is
\* initialised and still stores a session: that client was not called.
C29_Witness ==
  /\ qubicSession # NULL
  /\ qubicSession.topic = NATIVE_TOPIC
  /\ qubicSession.transport = "native"
  /\ qubicSession.address = "NATIVEADDR"
  /\ qubicStatus = "connected"
  /\ \E c \in ConnIds : connectCalls[c] = ConnDone
  /\ signClientRef
  /\ wcDisconnectCalls = {}
  /\ \E t \in Topics : wcSessions[t] # NULL

\* C30: the pairing URI is set only while the status is connecting: every
\* transition that leaves connecting leaves the URI cleared.
C30_UriOnlyWhileConnecting ==
  walletConnectUri # "" => qubicStatus = "connecting"

C32_ResumeAdoptsLatestQubicSession ==
  [][(EffectClientSettled /\ isMounted /\ clientCache = "ready") =>
       LET withNs == { t \in Topics : wcSessions[t] # NULL /\ wcSessions[t].ns }
           latest == CHOOSE t \in withNs :
                       \A u \in withNs : TopicIndex(u) <= TopicIndex(t)
       IN IF withNs # {}
          THEN /\ qubicSession' # NULL
               /\ qubicSession'.topic = latest
               /\ qubicSession'.transport = "walletconnect"
               /\ qubicStatus' = "connected"
          ELSE /\ qubicSession' = qubicSession
               /\ qubicStatus' = qubicStatus]_vars

\* C32 amended: the most recently created stored session that carries the
\* qubic namespace is adopted (status connected) when its first qubic
\* account has the shape namespace:chain:address; when it has not, or when
\* no stored session carries the namespace, session and status are left as
\* they were (no older session is tried).
C32_ResumeAdoptsLatestParsableSession ==
  [][(EffectClientSettled /\ isMounted /\ clientCache = "ready") =>
       LET withNs == { t \in Topics : wcSessions[t] # NULL /\ wcSessions[t].ns }
           latest == CHOOSE t \in withNs :
                       \A u \in withNs : TopicIndex(u) <= TopicIndex(t)
       IN IF withNs # {} /\ Len(wcSessions[latest].accounts) > 0
               /\ Len(wcSessions[latest].accounts[1]) = 3
          THEN /\ qubicSession' # NULL
               /\ qubicSession'.topic = latest
               /\ qubicSession'.address = wcSessions[latest].accounts[1][3]
               /\ qubicSession'.transport = "walletconnect"
               /\ qubicStatus' = "connected"
          ELSE /\ qubicSession' = qubicSession
               /\ qubicStatus' = qubicStatus]_vars

\* The store held two sessions with the qubic namespace and the effect has
\* just adopted the younger one.
C32_Witness ==
  /\ effectPc = "snapshot"
  /\ effectTopic = TopicOrder[2]
  /\ wcSessions[TopicOrder[1]] # NULL
  /\ wcSessions[TopicOrder[1]].ns
  /\ Len(wcSessions[TopicOrder[1]].accounts[1]) = 3
  /\ qubicSession # NULL
  /\ qubicSession.topic = TopicOrder[2]
  /\ qubicStatus = "connected"

\* C33: the protocol client of the project id is initialised at most once,
\* also when the start-up effect, connect and disconnect request it while the
\* first initialisation is pending: a pending initialisation is only ever
\* settled, never started again, and the client it produced stays the one
\* every caller receives.
C33_ClientInitialisedOnce ==
  [][/\ clientCache = "pending" => clientCache' \in {"pending", "ready", "failed"}
     /\ clientCache = "ready" => clientCache' = "ready"
     /\ \A c \in ConnIds :
          (ConnectStart(c, FALSE) /\ clientCache # "none")
            => clientCache' = clientCache]_vars

\* The start-up effect and a connect call both await the initialisation
\* that is still pending.
C33_Witness ==
  /\ clientCache = "pending"
  /\ effectPc = "client"
  /\ \E c \in ConnIds : connectCalls[c].pc = "client"

\* C34: after an initialisation of the protocol client has failed, a later
\* connect call (which has no client in hand) starts the initialisation
\* again.
C34_ConnectRetriesFailedInit ==
  [][\A c \in ConnIds :
       (ConnectStart(c, FALSE) /\ clientCache = "failed" /\ ~signClientRef)
         => clientCache' = "pending"]_vars

\* C35 as stated: when all lookups of a plaintext file succeed, each entry's
\* account is decided by the first match in the order seed, privateKey,
\* publicId/publicKey, each field tested against its pattern as written in
\* the file: a seed field of 55 or more lower-case letters gives source
\* seed, otherwise a privateKey field of 64 hex digits gives privateKey,
\* otherwise a publicId or publicKey field of 60 upper-case letters gives a
\* watch-only account (source publicKey), otherwise the entry gives none.
C35_FirstMatchDecidesAccount ==
  [][\A f \in FileIds :
       fileCalls[f].pc = "derive" =>
         LET entries == Prepared[fileCalls[f].file].entries
             SeedFits(e) == /\ e.seed # Absent
                            /\ e.seed.cls \in {"lower", "hexletters"}
                            /\ e.seed.len >= 55
             KeyFits(e) == /\ e.privateKey # Absent
                           /\ \/ /\ e.privateKey.cls \in {"hex", "hexletters", "HEXLETTERS"}
                                 /\ e.privateKey.len = 64
                              \/ /\ e.privateKey.cls = "0xhex"
                                 /\ e.privateKey.len = 66
             IdFits(v) == v # Absent /\ v.cls = "upper" /\ v.len = 60
             Source(e) == IF SeedFits(e) THEN "seed"
                          ELSE IF KeyFits(e) THEN "privateKey"
                          ELSE IF IdFits(e.publicId) \/ IdFits(e.publicKey)
                          THEN "publicKey"
                          ELSE "none"
             expected == SelectSeq([i \in 1..Len(entries) |-> Source(entries[i])],
                                   LAMBDA x : x # "none")
         IN \A outcome \in Outcomes(Len(entries)) :
              (FileParsed(f, outcome) /\ \A i \in 1..Len(entries) : outcome[i])
                => IF expected = <<>> THEN vaultState'.state = "error"
                   ELSE /\ vaultState'.state = "ready"
                        /\ [i \in 1..Len(vaultState'.accounts) |->
                              vaultState'.accounts[i].source] = expected]_vars

\* C35 amended: the seed field is tested after lower-casing, the privateKey
\* field after stripping a 0x prefix, and the identity candidate is the
\* publicId field when present and the publicKey field only otherwise; the
\* first match in that order decides the source, the derived accounts carry
\* the identity of the normalized secret, and a watch-only account carries
\* the candidate itself (nothing is derived for it).
C35_FirstNormalizedMatchDecidesAccount ==
  [][\A f \in FileIds :
       fileCalls[f].pc = "derive" =>
         LET entries == Prepared[fileCalls[f].file].entries
             SeedFits(e) == /\ e.seed # Absent
                            /\ e.seed.cls \in {"lower", "hexletters", "upper", "HEXLETTERS"}
                            /\ e.seed.len >= 55
             KeyFits(e) == /\ e.privateKey # Absent
                           /\ \/ /\ e.privateKey.cls \in {"hex", "hexletters", "HEXLETTERS"}
                                 /\ e.privateKey.len = 64
                              \/ /\ e.privateKey.cls = "0xhex"
                                 /\ e.privateKey.len = 66
             Candidate(e) == IF e.publicId # Absent THEN e.publicId ELSE e.publicKey
             IdFits(v) == v # Absent /\ v.cls = "upper" /\ v.len = 60
             Account(e) ==
               IF SeedFits(e)
               THEN [source |-> "seed",
                     publicId |-> IF e.seed.cls \in {"upper", "HEXLETTERS"}
                                  THEN "ID:lc:" \o e.seed.id
                                  ELSE "ID:" \o e.seed.id]
               ELSE IF KeyFits(e)
               THEN [source |-> "privateKey", publicId |-> "ID:" \o e.privateKey.id]
               ELSE IF IdFits(Candidate(e))
               THEN [source |-> "publicKey", publicId |-> Candidate(e).id]
               ELSE [source |-> "none", publicId |-> ""]
             expected == SelectSeq([i \in 1..Len(entries) |-> Account(entries[i])],
                                   LAMBDA x : x.source # "none")
         IN \A outcome \in Outcomes(Len(entries)) :
              (FileParsed(f, outcome) /\ \A i \in 1..Len(entries) : outcome[i])
                => IF expected = <<>> THEN vaultState'.state = "error"
                   ELSE /\ vaultState'.state = "ready"
                        /\ [i \in 1..Len(vaultState'.accounts) |->
                              [source |-> vaultState'.accounts[i].source,
                               publicId |-> vaultState'.accounts[i].publicId]]
                             = expected]_vars

\* keys.json has been imported: its entry with an upper-case seed and a
\* private key gave a seed account, its entry with an unusable seed, a
\* private key and a public key gave a privateKey account.
C35_Witness ==
  /\ vaultState.state = "ready"
  /\ vaultState.fileName = "keys.json"
  /\ Len(vaultState.accounts) = 2
  /\ vaultState.accounts[1].source = "seed"
  /\ vaultState.accounts[2].source = "privateKey"

\* C36 as stated: the candidate entries of a plaintext vault object are the
\* object elements of its array-valued fields accounts, wallets, seeds,
\* entries, data, in that order; the arrays under other names are scanned
\* only if the object has none of those five fields.
C36_KnownFieldsThenFallback ==
  [][\A f \in FileIds :
       (fileCalls[f].pc = "prepare" /\ FilePrepared(f, TRUE)) =>
         LET text == Prepared[fileCalls[f].file].text
             entries == Prepared[fileCalls[f].file].entries
             Elems(v) == IF v.type = "array"
                         THEN SelectSeq(v.items, LAMBDA item : item.type = "entry")
                         ELSE <<>>
             OfKey(obj, key) ==
               IF \E i \in 1..Len(obj.fields) : obj.fields[i].key = key
               THEN Elems(obj.fields[CHOOSE i \in 1..Len(obj.fields) :
                                       obj.fields[i].key = key].value)
               ELSE <<>>
             Known(obj) == OfKey(obj, "accounts") \o OfKey(obj, "wallets")
                             \o OfKey(obj, "seeds") \o OfKey(obj, "entries")
                             \o OfKey(obj, "data")
             RECURSIVE AllArrays(_)
             AllArrays(fields) ==
               IF fields = <<>> THEN <<>>
               ELSE Elems(fields[1].value) \o AllArrays(Tail(fields))
             HasKnown(obj) ==
               \E i \in 1..Len(obj.fields) :
                 obj.fields[i].key \in {"accounts", "wallets", "seeds", "entries", "data"}
         IN (text # NULL /\ text.json # NULL /\ text.json.type = "object"
               /\ ~isEncryptedVaultText(text))
              => /\ entries = IF HasKnown(text.json) THEN Known(text.json)
                              ELSE AllArrays(text.json.fields)
                 /\ entries = <<>> => vaultState' = VState("error", "no_entries")
                 /\ fileCalls'[f].pc = "derive" => entries # <<>>]_vars

\* C36 amended: the arrays under all names are scanned when the five known
\* fields have yielded no entry, whether such a field is missing, is not an
\* array, or holds no object.
C36_KnownFieldsThenFallbackWhenEmpty ==
  [][\A f \in FileIds :
       (fileCalls[f].pc = "prepare" /\ FilePrepared(f, TRUE)) =>
         LET text == Prepared[fileCalls[f].file].text
             entries == Prepared[fileCalls[f].file].entries
             Elems(v) == IF v.type = "array"
                         THEN SelectSeq(v.items, LAMBDA item : item.type = "entry")
                         ELSE <<>>
             OfKey(obj, key) ==
               IF \E i \in 1..Len(obj.fields) : obj.fields[i].key = key
               THEN Elems(obj.fields[CHOOSE i \in 1..Len(obj.fields) :
                                       obj.fields[i].key = key].value)
               ELSE <<>>
             Known(obj) == OfKey(obj, "accounts") \o OfKey(obj, "wallets")
                             \o OfKey(obj, "seeds") \o OfKey(obj, "entries")
                             \o OfKey(obj, "data")
             RECURSIVE AllArrays(_)
             AllArrays(fields) ==
               IF fields = <<>> THEN <<>>
               ELSE Elems(fields[1].value) \o AllArrays(Tail(fields))
         IN (text # NULL /\ text.json # NULL /\ text.json.type = "object"
               /\ ~isEncryptedVaultText(text))
              => /\ entries = IF Known(text.json) # <<>> THEN Known(text.json)
                              ELSE AllArrays(text.json.fields)
                 /\ entries = <<>> => vaultState' = VState("error", "no_entries")
                 /\ fileCalls'[f].pc = "derive" => entries # <<>>]_vars

\* mixed.json has been imported: the entry of its accounts field comes
\* before the entry of its data field, which the file lists first, and the
\* entry of its backup field is not an account.
C36_Witness ==
  /\ vaultState.state = "ready"
  /\ vaultState.fileName = "mixed.json"
  /\ Len(vaultState.accounts) = 2
  /\ vaultState.accounts[1].name = "A"
  /\ vaultState.accounts[2].name = "D"

\* C37: when the container has opened, an unlock whose container lists no
\* seed that is not watch-only fails with the no-spendable-seeds error; when
\* the reveals and derivations have settled, an unlock none of which
\* succeeded fails with the empty-derivation error, and otherwise every
\* account of the ready vault is the account of a listed seed that is not
\* watch-only, so no watch-only seed yields an account.
C37_OnlySpendableSeedsUnlocked ==
  [][\A u \in UnlockIds :
       LET text == TextDecode(unlockCalls[u].upload.buffer)
           spendable == { i \in 1..Len(text.seeds) : ~text.seeds[i].isOnlyWatch }
       IN /\ (unlockCalls[u].pc = "import" /\ UnlockImported(u, TRUE)) =>
               IF spendable = {}
               THEN /\ vaultState' = VState("error", "no_spendable_seeds")
                    /\ unlockCalls'[u] = UnlockIdle
               ELSE /\ unlockCalls'[u].pc = "derive"
                    /\ vaultState' = vaultState
          /\ unlockCalls[u].pc = "derive" =>
               \A outcome \in Outcomes(Cardinality(spendable)) :
                 UnlockDerived(u, outcome) =>
                   IF \A i \in DOMAIN outcome : ~outcome[i]
                   THEN vaultState' = VState("error", "none_derived")
                   ELSE /\ vaultState'.state = "ready"
                        /\ Len(vaultState'.accounts)
                             = Cardinality({i \in DOMAIN outcome : outcome[i]})
                        /\ \A k \in 1..Len(vaultState'.accounts) :
                             /\ vaultState'.accounts[k].source = "seed"
                             /\ \E i \in spendable :
                                  vaultState'.accounts[k].publicId =
                                    "ID:seed-of:" \o text.seeds[i].publicId]_vars

\* The container with two spendable seeds and a watch-only one has been
\* unlocked: two accounts, none of the watch-only seed.
C37_Witness ==
  /\ vaultState.state = "ready"
  /\ vaultState.fileName = "vault.qubic-vault"
  /\ Len(vaultState.accounts) = 2
  /\ \A k \in 1..2 : vaultState.accounts[k].publicId # "ID:seed-of:PUBW"

\* C38: a file selection that fails - the file cannot be read, the archive
\* has no readable entry, the text is not JSON, the JSON holds no account
\* entry, no entry is compatible, or no compatible entry could be derived -
\* ends with the vault in error with the failure's message, no upload staged
\* and the selection over.
C38_FailedSelectionDiscardsUpload ==
  [][\A f \in FileIds :
       LET text == Prepared[fileCalls[f].file].text
           entries == Prepared[fileCalls[f].file].entries
           Failed(message) ==
             /\ vaultState' = VState("error", message)
             /\ vaultUpload' = NULL
             /\ fileCalls'[f] = FileIdle
       IN /\ (fileCalls[f].pc = "prepare" /\ FilePrepared(f, FALSE))
               => Failed("unreadable")
          /\ (fileCalls[f].pc = "prepare" /\ FilePrepared(f, TRUE)) =>
               /\ text = NULL => Failed("no_readable_entries")
               /\ (text # NULL /\ ~isEncryptedVaultText(text)) =>
                    /\ text.json = NULL => Failed("not_json")
                    /\ (text.json # NULL /\ entries = <<>>) => Failed("no_entries")
                    /\ (entries # <<>>
                          /\ \A i \in 1..Len(entries) : EntryPlan(entries[i]) = "none")
                         => Failed("no_compatible")
          /\ fileCalls[f].pc = "derive" =>
               \A outcome \in Outcomes(Len(entries)) :
                 (/\ FileParsed(f, outcome)
                  /\ \A i \in 1..Len(entries) :
                       outcome[i] => EntryPlan(entries[i]) = "none")
                   => Failed("no_compatible")]_vars

\* A selection has ended for want of a compatible entry: the vault is in
\* error and nothing is staged.
C38_Witness ==
  /\ vaultState = VState("error", "no_compatible")
  /\ vaultUpload = NULL
  /\ \A f \in FileIds : fileCalls[f] = FileIdle
  /\ \A u \in UnlockIds : unlockCalls[u] = UnlockIdle

\* C39: after a reset the vault stays idle with no staged upload and no
\* accounts until the next file selection: when reset was called while the
\* derivation of a plaintext file or an unlock was in flight (the card shows
\* its Remove button as long as an upload is staged), the completion of that
\* call changes neither the vault state nor the upload.
C39_ResetOutlivesInFlightCalls ==
  [][(/\ vaultState = VState("idle", "")
      /\ vaultUpload = NULL
      /\ \/ \E f \in FileIds, outcome \in AllOutcomes : FileParsed(f, outcome)
         \/ \E u \in UnlockIds, opened \in BOOLEAN : UnlockImported(u, opened)
         \/ \E u \in UnlockIds, outcome \in AllOutcomes : UnlockDerived(u, outcome))
       => (vaultState' = vaultState /\ vaultUpload' = vaultUpload)]_vars

\* C40 (as stated): with several seed submissions in flight, the seed state
\* shown after they completed is the result of the most recently submitted
\* input: a submission that completes never replaces the result of a later
\* submission.  The call of slot 1 is the earlier one; when it completes
\* while the seed state shows the result of the mnemonic submitted after it,
\* the seed state stays what it is.
C40_LaterSubmissionWins ==
  [][(/\ seedCalls[1].pc \in {"derive", "snapshot"}
      /\ seedCalls'[1] = SeedIdle
      /\ seedCalls[2] = SeedIdle
      /\ seedState.state = "ready"
      /\ seedState.message = "imported")
     => seedState' = seedState]_vars

====
